---- MODULE Spec2Model ----
(***************************************************************************)
(* M5DialThermo: the remote relay unit (receiver main loop, StoveRelay)    *)
(* and the rate-limited relay actuator (RelayControl).                     *)
(*                                                                         *)
(* Time.  The code keeps time stamps (lastCommandTime, lastStateChange)    *)
(* and only ever reads them through the difference millis() - stamp.  The  *)
(* model keeps that difference: a timer is the number of milliseconds      *)
(* since its stamp was taken, "stamp = millis()" sets it to 0 and the      *)
(* passage of time adds to it.  A timer stops counting at a cap which lies *)
(* above every threshold it is compared with.                              *)
(*                                                                         *)
(* Text.  A String is a sequence of one-character strings.                 *)
(***************************************************************************)
EXTENDS Integers, Sequences, FiniteSets, TLC

----------------------------------------------------------------------------
(* Arduino String helpers *)

LowerCaseLetters == <<"a", "b", "c", "d", "e", "f", "g", "h", "i", "j", "k", "l", "m", "n", "o", "p", "q", "r", "s", "t", "u", "v", "w", "x", "y", "z">>
UpperCaseLetters == <<"A", "B", "C", "D", "E", "F", "G", "H", "I", "J", "K", "L", "M", "N", "O", "P", "Q", "R", "S", "T", "U", "V", "W", "X", "Y", "Z">>

\* the position of each lower-case letter in the alphabet
LowerIndex ==
    [c \in {LowerCaseLetters[i] : i \in 1..Len(LowerCaseLetters)} |->
        CHOOSE i \in 1..Len(LowerCaseLetters) : LowerCaseLetters[i] = c]

\* toupper
toUpperChar(c) ==
    IF c \in DOMAIN LowerIndex THEN UpperCaseLetters[LowerIndex[c]] ELSE c

\* String::toUpperCase
toUpperCase(s) == [i \in 1..Len(s) |-> toUpperChar(s[i])]

\* String::equalsIgnoreCase
equalsIgnoreCase(a, b) == toUpperCase(a) = toUpperCase(b)

\* String::startsWith
startsWith(s, p) == Len(p) <= Len(s) /\ SubSeq(s, 1, Len(p)) = p

----------------------------------------------------------------------------
(* shared/protocol_common.hpp *)

CMD_STOVE_ON == <<"S", "T", "O", "V", "E", "_", "O", "N">>
CMD_STOVE_OFF == <<"S", "T", "O", "V", "E", "_", "O", "F", "F">>
CMD_STATUS_REQUEST == <<"S", "T", "A", "T", "U", "S", "_", "R", "E", "Q", "U", "E", "S", "T">>
CMD_PING == <<"P", "I", "N", "G">>

RESP_ACK == <<"A", "C", "K">>
RESP_STOVE_ON_ACK == <<"S", "T", "O", "V", "E", "_", "O", "N", "_", "A", "C", "K">>
RESP_STOVE_OFF_ACK == <<"S", "T", "O", "V", "E", "_", "O", "F", "F", "_", "A", "C", "K">>
RESP_TIMEOUT == <<"S", "A", "F", "E", "T", "Y", "_", "T", "I", "M", "E", "O", "U", "T">>
RESP_PONG == <<"P", "O", "N", "G">>
RESP_STATUS == <<"S", "T", "A", "T", "U", "S", "_", "O", "K">>
RESP_UNKNOWN == <<"E", "R", "R", "O", "R", "_", "U", "N", "K", "N", "O", "W", "N", "_", "C", "O", "M", "M", "A", "N", "D">>

\* variant: the comparison ignores the case of the letters
isValidCommand_anyCase(command) ==
    \/ equalsIgnoreCase(command, CMD_STOVE_ON)
    \/ equalsIgnoreCase(command, CMD_STOVE_OFF)
    \/ equalsIgnoreCase(command, CMD_STATUS_REQUEST)
    \/ equalsIgnoreCase(command, CMD_PING)

\* ProtocolHelper::isValidCommand (case-sensitive comparison)
isValidCommand(command) ==
    \/ command = CMD_STOVE_ON
    \/ command = CMD_STOVE_OFF
    \/ command = CMD_STATUS_REQUEST
    \/ command = CMD_PING

----------------------------------------------------------------------------
(* Program constants *)

MIN_STATE_CHANGE_INTERVAL == 2000
SAFETY_TIMEOUT == 10 * 60 * 1000

(* Bounds of the model *)

\* a short and a long passage of time between two steps of the receiver
FineStep == 1000
CoarseStep == 300000
\* where the timers stop counting
DwellCap == 3000
WindowCap == 604000

Saturate(t, cap) == IF t > cap THEN cap ELSE t

----------------------------------------------------------------------------
(* Decoded strings LoRaReceiver::checkForCommand hands to the main loop:   *)
(* it returns whatever hexToAscii decoded, with no validation.             *)

NoCommand == <<>>

InboundStrings ==
    { CMD_STOVE_ON, CMD_STOVE_OFF, CMD_STATUS_REQUEST, CMD_PING,
      <<"s", "t", "o", "v", "e", "_", "o", "n">>,
      <<"S", "t", "o", "v", "e", "_", "O", "f", "f">>,
      <<"b", "a", "n", "a", "n", "a">>,
      <<"T", "H", "E", "R", "M", "O", "S", "T", "O", "V", "E", "_", "O", "N">> }

VARIABLES
    stoveRelay,              \* StoveRelay: currentState, pin level written, isInitialized,
                             \*   timeSinceLastChange = millis() - lastStateChange
    timeSinceLastCommand,    \* millis() - lastCommandTime
    timeSinceValidCommand,   \* history: time since a command of the vocabulary was last
                             \*   handled without the relay refusing it
    ledStatus,               \* StatusLED::currentStatus
    responses,               \* what the last loop iteration passed to sendResponse, in order
    ev,                      \* history: what the last step of the receiver did
    relayControl,            \* RelayControl: currentState, pin level written, enabled,
                             \*   remoteControlEnabled, minChangeInterval,
                             \*   elapsed = millis() - lastStateChange
    call,                    \* history: the last call made on a relay object directly
    transmitter,             \* LoRaTransmitter: isInitialized, currentMode and the statistics
                             \*   successfulTransmissions, failedTransmissions, totalRetries
    loraReceiver,            \* LoRaReceiver: isInitialized, currentMode
    tx,                      \* history: the last call made on the transmitter or on the
                             \*   LoRaReceiver directly
    stove,                   \* Stove of src/src/stove.cpp, which commands the relay unit
                             \*   over the radio
    localStove,              \* Stove of src/stove.cpp, which drives its own relay pin
    sv,                      \* history: the last call made on a Stove
    boot,                    \* setup() of one endpoint in progress: where it stands, the
                             \*   time since initStartTime, and what it has done so far
    wire,                    \* history: the last text given to a ProtocolHelper function
                             \*   or put on the air, and what came of it
    exchange,                \* sendATCommand of the transmitter in progress: where it
                             \*   stands, the time spent in its loop, the response so far
    air                      \* a confirmed P2P sendCommand in progress, the packet the
                             \*   relay unit has not read yet and its responses not yet
                             \*   on the air

vars == <<stoveRelay, timeSinceLastCommand, timeSinceValidCommand, ledStatus, responses, ev,
          relayControl, call, transmitter, loraReceiver, tx, stove, localStove, sv,
          boot, wire, exchange, air>>

\* the radio side of the two units
senderVars == <<transmitter, loraReceiver, tx>>

\* the two thermostat controllers
stoveVars == <<stove, localStove, sv>>

\* the bring-up of an endpoint and the texts on the wire
protocolVars == <<boot, wire, exchange, air>>

\* the history of a step that handles no text
NoWire == [op |-> "none", input |-> <<>>, output |-> <<>>, back |-> <<>>, ok |-> FALSE]

----------------------------------------------------------------------------
(* receiver/src/stove_relay.cpp.  Each operation maps the object to the    *)
(* object after the call and the value returned.  readBackOk says whether  *)
(* digitalRead returns the level that was just written.                    *)

\* variant: the safety interval is not checked
StoveRelay_turnOn_nodwell(r, readBackOk) ==
    IF ~r.isInitialized THEN [relay |-> r, ret |-> FALSE]
    ELSE IF r.currentState THEN [relay |-> r, ret |-> TRUE]
    ELSE [relay |-> [r EXCEPT !.pin = "HIGH", !.currentState = readBackOk,
                              !.timeSinceLastChange = 0],
          ret |-> readBackOk]

StoveRelay_turnOn(r, readBackOk) ==
    IF ~r.isInitialized THEN [relay |-> r, ret |-> FALSE]
    ELSE IF r.timeSinceLastChange < MIN_STATE_CHANGE_INTERVAL THEN [relay |-> r, ret |-> FALSE]
    ELSE IF r.currentState THEN [relay |-> r, ret |-> TRUE]
    ELSE IF readBackOk
         THEN [relay |-> [r EXCEPT !.pin = "HIGH", !.currentState = TRUE,
                                   !.timeSinceLastChange = 0],
               ret |-> TRUE]
         ELSE [relay |-> [r EXCEPT !.pin = "HIGH", !.currentState = FALSE,
                                   !.timeSinceLastChange = 0],
               ret |-> FALSE]

StoveRelay_turnOff(r, readBackOk) ==
    IF ~r.isInitialized THEN [relay |-> r, ret |-> FALSE]
    ELSE IF ~r.currentState THEN [relay |-> r, ret |-> TRUE]
    ELSE [relay |-> [r EXCEPT !.pin = "LOW", !.currentState = FALSE,
                              !.timeSinceLastChange = 0],
          ret |-> readBackOk]

StoveRelay_forceState(r, state, readBackOk) ==
    IF ~r.isInitialized THEN [relay |-> r, ret |-> FALSE]
    ELSE [relay |-> [r EXCEPT !.pin = IF state THEN "HIGH" ELSE "LOW",
                              !.currentState = state,
                              !.timeSinceLastChange = 0],
          ret |-> readBackOk]

StoveRelay_isOn(r) == r.currentState

----------------------------------------------------------------------------
(* receiver/src/receiver_main.cpp *)

\* the history of a step that is no iteration of loop()
NoEvent(op) ==
    [op |-> op, command |-> NoCommand, validApplied |-> FALSE,
     relayRet |-> TRUE, restarted |-> FALSE,
     preOn |-> FALSE, prePin |-> "LOW", preDwellElapsed |-> TRUE,
     midOn |-> FALSE, midPin |-> "LOW",
     silentFor |-> "less", expired |-> FALSE,
     notifying |-> FALSE, onAtNotify |-> FALSE, notified |-> FALSE]

\* the relay after setup(): StoveRelay::setup succeeded (otherwise setup() never
\* returns), and LoRaReceiver::setup has since waited longer than the safety interval
StoveRelayAfterSetup ==
    [currentState |-> FALSE, pin |-> "LOW", isInitialized |-> TRUE,
     timeSinceLastChange |-> DwellCap]

HandleCommand(r, led, command, readBackOk) ==
    IF Len(command) = 0
    THEN [relay |-> r, led |-> led, sent |-> <<>>, restart |-> FALSE,
          commandSuccess |-> FALSE, relayRet |-> TRUE]
    ELSE IF equalsIgnoreCase(command, CMD_STOVE_ON)
    THEN LET res == StoveRelay_turnOn(r, readBackOk)
         IN [relay |-> res.relay, led |-> "STATUS_STOVE_ON", sent |-> <<RESP_ACK>>,
             restart |-> TRUE, commandSuccess |-> TRUE, relayRet |-> res.ret]
    ELSE IF equalsIgnoreCase(command, CMD_STOVE_OFF)
    THEN LET res == StoveRelay_turnOff(r, readBackOk)
         IN [relay |-> res.relay, led |-> "STATUS_STOVE_OFF", sent |-> <<RESP_ACK>>,
             restart |-> TRUE, commandSuccess |-> TRUE, relayRet |-> res.ret]
    ELSE IF equalsIgnoreCase(command, CMD_STATUS_REQUEST)
    THEN [relay |-> r, led |-> led,
          sent |-> <<IF StoveRelay_isOn(r) THEN RESP_STOVE_ON_ACK ELSE RESP_STOVE_OFF_ACK>>,
          restart |-> TRUE, commandSuccess |-> TRUE, relayRet |-> TRUE]
    ELSE [relay |-> r, led |-> led, sent |-> <<RESP_UNKNOWN>>, restart |-> TRUE,
          commandSuccess |-> FALSE, relayRet |-> TRUE]

\* variant: the notification is sent first and the relay switched afterwards
SafetyCheck_notifyFirst(r, led, sinceCommand, readBackOk) ==
    IF sinceCommand > SAFETY_TIMEOUT
    THEN IF StoveRelay_isOn(r)
         THEN [relay |-> StoveRelay_turnOff(r, readBackOk).relay, led |-> "STATUS_TIMEOUT",
               sent |-> <<RESP_TIMEOUT>>, sinceCommand |-> 0, expired |-> TRUE,
               onAtSend |-> StoveRelay_isOn(r)]
         ELSE [relay |-> r, led |-> led, sent |-> <<>>, sinceCommand |-> 0, expired |-> TRUE,
               onAtSend |-> FALSE]
    ELSE [relay |-> r, led |-> led, sent |-> <<>>, sinceCommand |-> sinceCommand,
          expired |-> FALSE, onAtSend |-> FALSE]

\* the safety check at the end of loop(); onAtSend: the relay is on at the moment
\* sendResponse("SAFETY_TIMEOUT") is called
SafetyCheck(r, led, sinceCommand, readBackOk) ==
    IF sinceCommand > SAFETY_TIMEOUT
    THEN IF StoveRelay_isOn(r)
         THEN [relay |-> StoveRelay_turnOff(r, readBackOk).relay, led |-> "STATUS_TIMEOUT",
               sent |-> <<RESP_TIMEOUT>>, sinceCommand |-> 0, expired |-> TRUE,
               onAtSend |-> StoveRelay_isOn(StoveRelay_turnOff(r, readBackOk).relay)]
         ELSE [relay |-> r, led |-> led, sent |-> <<>>, sinceCommand |-> 0, expired |-> TRUE,
               onAtSend |-> FALSE]
    ELSE [relay |-> r, led |-> led, sent |-> <<>>, sinceCommand |-> sinceCommand,
          expired |-> FALSE, onAtSend |-> FALSE]

\* one iteration of loop() on the initialized system, as a map of the receiver's
\* state; command is what checkForCommand returned
LoopStep(rcv, command, readBack1, readBack2) ==
    LET h == HandleCommand(rcv.relay, rcv.led, command, readBack1)
        s == SafetyCheck(h.relay, h.led,
                         IF h.restart THEN 0 ELSE rcv.sinceCommand, readBack2)
        validApplied == isValidCommand(command) /\ h.relayRet
        sinceValid == IF validApplied THEN 0 ELSE rcv.sinceValid
    IN [relay |-> s.relay, led |-> s.led, sent |-> h.sent \o s.sent,
        sinceCommand |-> s.sinceCommand, sinceValid |-> sinceValid,
        ev |-> [op |-> "loop", command |-> command,
                validApplied |-> validApplied,
                relayRet |-> h.relayRet,
                restarted |-> h.restart,
                preOn |-> rcv.relay.currentState,
                prePin |-> rcv.relay.pin,
                preDwellElapsed |-> rcv.relay.timeSinceLastChange >= MIN_STATE_CHANGE_INTERVAL,
                midOn |-> h.relay.currentState,
                midPin |-> h.relay.pin,
                silentFor |-> IF sinceValid >= SAFETY_TIMEOUT THEN "window" ELSE "less",
                expired |-> s.expired,
                notifying |-> s.sent # <<>>, onAtNotify |-> s.onAtSend,
                notified |-> FALSE]]

\* the receiver's state as LoopStep takes it
ReceiverNow ==
    [relay |-> stoveRelay, led |-> ledStatus, sent |-> responses,
     sinceCommand |-> timeSinceLastCommand, sinceValid |-> timeSinceValidCommand, ev |-> ev]

\* variant: the response is sent whether or not the receiver is initialized
LoRaReceiver_sendResponse_unguarded(r, response, sentOk) ==
    [ret |-> sentOk, wrote |-> TRUE]

\* LoRaReceiver::sendResponse: sentOk says whether the modem reported the packet sent
LoRaReceiver_sendResponse(r, response, sentOk) ==
    IF ~r.isInitialized THEN [ret |-> FALSE, wrote |-> FALSE]
    ELSE [ret |-> sentOk, wrote |-> TRUE]

\* the modem reports the SAFETY_TIMEOUT notification as sent or not; loop() does not
\* look at what sendResponse returns
Loop(command, readBack1, readBack2) ==
    \E n \in {LoopStep(ReceiverNow, command, readBack1, readBack2)} :
    \E sentOk \in IF n.ev.notifying THEN BOOLEAN ELSE {FALSE} :
       /\ stoveRelay' = n.relay
       /\ ledStatus' = n.led
       /\ responses' = n.sent
       /\ timeSinceLastCommand' = n.sinceCommand
       /\ timeSinceValidCommand' = n.sinceValid
       /\ ev' = [n.ev EXCEPT !.notified =
                     LoRaReceiver_sendResponse(loraReceiver, RESP_TIMEOUT, sentOk).ret]
       /\ UNCHANGED <<relayControl, call, senderVars, stoveVars, protocolVars>>

\* time passes between two iterations (delay(100), blocking reads of the modem)
Elapse(d) ==
    /\ stoveRelay' = [stoveRelay EXCEPT
                        !.timeSinceLastChange = Saturate(@ + d, DwellCap)]
    /\ timeSinceLastCommand' = Saturate(timeSinceLastCommand + d, WindowCap)
    /\ timeSinceValidCommand' = Saturate(timeSinceValidCommand + d, WindowCap)
    /\ ev' = NoEvent("elapse")
    /\ UNCHANGED <<ledStatus, responses, relayControl, call, senderVars, stoveVars, protocolVars>>

\* a short time passes; short steps are told apart only while the safety
\* interval of the relay is running and a vocabulary command was applied just before
ElapseShort ==
    /\ stoveRelay.timeSinceLastChange < MIN_STATE_CHANGE_INTERVAL
    /\ timeSinceValidCommand < MIN_STATE_CHANGE_INTERVAL
    /\ Elapse(FineStep)

ElapseLong == Elapse(CoarseStep)

ReceiverLoop ==
    \E command \in InboundStrings \cup {NoCommand}, readBack1 \in BOOLEAN, readBack2 \in BOOLEAN :
        Loop(command, readBack1, readBack2)

----------------------------------------------------------------------------
(* src/relay_control.cpp.  A returned String is kept as its fixed text,    *)
(* the number printed in it and the command text appended to it.           *)

DEFAULT_MIN_INTERVAL == 180000

Message(text, seconds, command) == [text |-> text, seconds |-> seconds, command |-> command]

\* variant: the interval must be exceeded, not merely reached
RelayControl_canChangeState_strict(rc) == rc.elapsed > rc.minChangeInterval

RelayControl_canChangeState(rc) == rc.elapsed >= rc.minChangeInterval

RelayControl_getTimeUntilNextChange(rc) ==
    IF rc.elapsed >= rc.minChangeInterval THEN 0
    ELSE (rc.minChangeInterval - rc.elapsed) \div 1000

\* variant: the forced change waits for the interval like any other change
RelayControl_forceState_rated(rc, on) ==
    IF rc.elapsed >= rc.minChangeInterval
    THEN [rc EXCEPT !.currentState = IF on THEN "RELAY_ON" ELSE "RELAY_OFF",
                    !.elapsed = 0,
                    !.pin = IF on THEN "HIGH" ELSE "LOW"]
    ELSE rc

RelayControl_forceState(rc, on) ==
    [rc EXCEPT !.currentState = IF on THEN "RELAY_ON" ELSE "RELAY_OFF",
               !.elapsed = 0,
               !.pin = IF on THEN "HIGH" ELSE "LOW"]

\* variant: force also overrides the enabled flag
RelayControl_turnOn_forceFirst(rc, force) ==
    IF ~rc.enabled /\ ~force
    THEN [relay |-> rc, ret |-> Message("Relay: Control disabled", 0, <<>>)]
    ELSE IF ~force /\ ~(rc.elapsed >= rc.minChangeInterval)
    THEN [relay |-> rc,
          ret |-> Message("Relay: Cannot turn on, N seconds remaining",
                          (rc.minChangeInterval - rc.elapsed) \div 1000, <<>>)]
    ELSE [relay |-> [rc EXCEPT !.currentState = "RELAY_ON", !.elapsed = 0, !.pin = "HIGH"],
          ret |-> Message("Relay: Turned ON", 0, <<>>)]

RelayControl_turnOn(rc, force) ==
    IF ~rc.enabled
    THEN [relay |-> rc, ret |-> Message("Relay: Control disabled", 0, <<>>)]
    ELSE IF ~force /\ ~RelayControl_canChangeState(rc)
    THEN [relay |-> rc,
          ret |-> Message("Relay: Cannot turn on, N seconds remaining",
                          RelayControl_getTimeUntilNextChange(rc), <<>>)]
    ELSE [relay |-> [rc EXCEPT !.currentState = "RELAY_ON", !.elapsed = 0, !.pin = "HIGH"],
          ret |-> Message("Relay: Turned ON", 0, <<>>)]

RelayControl_turnOff(rc, force) ==
    IF ~rc.enabled
    THEN [relay |-> rc, ret |-> Message("Relay: Control disabled", 0, <<>>)]
    ELSE IF ~force /\ ~RelayControl_canChangeState(rc)
    THEN [relay |-> rc,
          ret |-> Message("Relay: Cannot turn off, N seconds remaining",
                          RelayControl_getTimeUntilNextChange(rc), <<>>)]
    ELSE [relay |-> [rc EXCEPT !.currentState = "RELAY_OFF", !.elapsed = 0, !.pin = "LOW"],
          ret |-> Message("Relay: Turned OFF", 0, <<>>)]

\* variant: disabling switches off only when the interval allows a change
RelayControl_setEnabled_rated(rc, enable) ==
    LET r1 == [rc EXCEPT !.enabled = enable]
    IN IF ~enable /\ r1.currentState = "RELAY_ON" /\ r1.elapsed >= r1.minChangeInterval
       THEN [r1 EXCEPT !.currentState = "RELAY_OFF", !.elapsed = 0, !.pin = "LOW"]
       ELSE r1

RelayControl_setEnabled(rc, enable) ==
    LET r1 == [rc EXCEPT !.enabled = enable]
    IN IF ~enable /\ r1.currentState = "RELAY_ON"
       THEN RelayControl_forceState(r1, FALSE)
       ELSE r1

RelayControl_getStateString(rc) ==
    LET baseState == IF rc.currentState = "RELAY_ON" THEN "ON" ELSE "OFF"
    IN IF ~rc.enabled
       THEN Message(IF baseState = "ON" THEN "ON (Disabled)" ELSE "OFF (Disabled)", 0, <<>>)
       ELSE IF ~RelayControl_canChangeState(rc)
       THEN Message(IF baseState = "ON" THEN "ON (Change in Ns)" ELSE "OFF (Change in Ns)",
                    RelayControl_getTimeUntilNextChange(rc), <<>>)
       ELSE Message(baseState, 0, <<>>)

\* variant: a text that is no command switches the relay off
RelayControl_processRemoteCommand_failOff(rc, command) ==
    LET upperCommand == toUpperCase(command)
    IN IF ~rc.remoteControlEnabled
       THEN [relay |-> rc, ret |-> Message("Remote control disabled", 0, <<>>)]
       ELSE IF ~rc.enabled
       THEN [relay |-> rc, ret |-> Message("Control disabled", 0, <<>>)]
       ELSE IF upperCommand = <<"O", "N">> \/ upperCommand = CMD_STOVE_ON
       THEN RelayControl_turnOn(rc, FALSE)
       ELSE IF upperCommand = <<"O", "F", "F">> \/ upperCommand = CMD_STOVE_OFF
       THEN RelayControl_turnOff(rc, FALSE)
       ELSE IF upperCommand = <<"S", "T", "A", "T", "U", "S">> \/ upperCommand = CMD_STATUS_REQUEST
       THEN [relay |-> rc,
             ret |-> [RelayControl_getStateString(rc) EXCEPT !.command = <<"R", "e", "l", "a", "y", ":", " ">>]]
       ELSE IF upperCommand = <<"F", "O", "R", "C", "E", "_", "O", "N">>
       THEN RelayControl_turnOn(rc, TRUE)
       ELSE IF upperCommand = <<"F", "O", "R", "C", "E", "_", "O", "F", "F">>
       THEN RelayControl_turnOff(rc, TRUE)
       ELSE [relay |-> RelayControl_forceState(rc, FALSE),
             ret |-> Message("Unknown command: ", 0, command)]

RelayControl_processRemoteCommand(rc, command) ==
    LET upperCommand == toUpperCase(command)
    IN IF ~rc.remoteControlEnabled
       THEN [relay |-> rc, ret |-> Message("Remote control disabled", 0, <<>>)]
       ELSE IF ~rc.enabled
       THEN [relay |-> rc, ret |-> Message("Control disabled", 0, <<>>)]
       ELSE IF upperCommand = <<"O", "N">> \/ upperCommand = CMD_STOVE_ON
       THEN RelayControl_turnOn(rc, FALSE)
       ELSE IF upperCommand = <<"O", "F", "F">> \/ upperCommand = CMD_STOVE_OFF
       THEN RelayControl_turnOff(rc, FALSE)
       ELSE IF upperCommand = <<"S", "T", "A", "T", "U", "S">> \/ upperCommand = CMD_STATUS_REQUEST
       THEN [relay |-> rc,
             ret |-> [RelayControl_getStateString(rc) EXCEPT !.command = <<"R", "e", "l", "a", "y", ":", " ">>]]
       ELSE IF upperCommand = <<"F", "O", "R", "C", "E", "_", "O", "N">>
       THEN RelayControl_turnOn(rc, TRUE)
       ELSE IF upperCommand = <<"F", "O", "R", "C", "E", "_", "O", "F", "F">>
       THEN RelayControl_turnOff(rc, TRUE)
       ELSE [relay |-> rc, ret |-> Message("Unknown command: ", 0, command)]

RelayControl_setMinChangeInterval(rc, intervalMs) == [rc EXCEPT !.minChangeInterval = intervalMs]

RelayControl_setRemoteControlEnabled(rc, enable) == [rc EXCEPT !.remoteControlEnabled = enable]

\* the object after the constructor (default arguments) and setup()
RelayControlAfterSetup ==
    [currentState |-> "RELAY_OFF", pin |-> "LOW", elapsed |-> 0,
     minChangeInterval |-> DEFAULT_MIN_INTERVAL, enabled |-> TRUE,
     remoteControlEnabled |-> FALSE]

(* Bounds of the calls made on a RelayControl *)

\* the long passage of time between two calls, and where the timer stops counting
RelayCoarseStep == 90000
RelayCap == 182000
FineWindow == 2000
\* the other interval a caller sets with setMinChangeInterval
OtherInterval == 90000

RemoteTexts ==
    { <<"O", "N">>, <<"o", "f", "f">>, CMD_STOVE_ON, CMD_STOVE_OFF,
      <<"S", "T", "A", "T", "U", "S">>, CMD_STATUS_REQUEST,
      <<"s", "t", "a", "t", "u", "s", "_", "r", "e", "q", "u", "e", "s", "t">>,
      <<"S", "t", "a", "t", "u", "s", "_", "R", "e", "q", "u", "e", "s", "t">>,
      <<"F", "O", "R", "C", "E", "_", "O", "N">>, <<"f", "o", "r", "c", "e", "_", "o", "f", "f">>,
      <<"b", "a", "n", "a", "n", "a">>, CMD_PING, <<>> }

NoMessage == Message("", 0, <<>>)

\* the characters of the texts that travel, with their ASCII codes
OtherCharacters == <<"_", ":", " ">>
OtherCodes == <<95, 58, 32>>
Digits == <<"0", "1", "2", "3", "4", "5", "6", "7", "8", "9">>
HexDigits == Digits \o <<"A", "B", "C", "D", "E", "F">>

AsciiCode ==
    [c \in {UpperCaseLetters[i] : i \in 1..26} |->
        64 + (CHOOSE i \in 1..26 : UpperCaseLetters[i] = c)]
    @@ [c \in {LowerCaseLetters[i] : i \in 1..26} |-> 96 + LowerIndex[c]]
    @@ [c \in {Digits[i] : i \in 1..10} |-> 47 + (CHOOSE i \in 1..10 : Digits[i] = c)]
    @@ [c \in {OtherCharacters[i] : i \in 1..3} |->
        OtherCodes[CHOOSE i \in 1..3 : OtherCharacters[i] = c]]

\* (char) of a code; a code outside the characters above is shown as "?"
AsciiChar ==
    [code \in 0..255 |->
        IF \E c \in DOMAIN AsciiCode : AsciiCode[c] = code
        THEN CHOOSE c \in DOMAIN AsciiCode : AsciiCode[c] = code
        ELSE "?"]

\* the value of a hexadecimal digit as strtol reads it, -1 for any other character
HexValue ==
    [d \in DOMAIN AsciiCode |->
        IF \E i \in 1..16 : HexDigits[i] = toUpperChar(d)
        THEN (CHOOSE i \in 1..16 : HexDigits[i] = toUpperChar(d)) - 1
        ELSE -1]

\* ProtocolHelper::asciiToHex: sprintf("%02X") of every character
RECURSIVE asciiToHex(_)
asciiToHex(ascii) ==
    IF ascii = <<>> THEN <<>>
    ELSE <<HexDigits[(AsciiCode[Head(ascii)] \div 16) + 1],
           HexDigits[(AsciiCode[Head(ascii)] % 16) + 1]>> \o asciiToHex(Tail(ascii))

\* ProtocolHelper::hexToAscii: strtol(.., 16) of every complete pair of characters;
\* strtol stops at the first character that is no hexadecimal digit
RECURSIVE hexToAscii(_)
hexToAscii(hex) ==
    IF Len(hex) < 2 THEN <<>>
    ELSE LET hi == HexValue[hex[1]]
             lo == HexValue[hex[2]]
             value == IF hi < 0 THEN 0 ELSE IF lo < 0 THEN hi ELSE 16 * hi + lo
         IN <<AsciiChar[value]>> \o hexToAscii(SubSeq(hex, 3, Len(hex)))

(* The same two functions on a String given by the values of its bytes, *)
(* 0..255: char is an unsigned type on the ESP32.                       *)

\* variant: char is a signed type, so a byte above 127 is printed as a negative int
sprintf02X_signed(byte) ==
    IF byte < 128
    THEN <<HexDigits[(byte \div 16) + 1], HexDigits[(byte % 16) + 1]>>
    ELSE <<"F", "F", "F", "F", "F", "F",
           HexDigits[(byte \div 16) + 1], HexDigits[(byte % 16) + 1]>>

\* sprintf(hexByte, "%02X", (int)ascii[i])
sprintf02X(byte) == <<HexDigits[(byte \div 16) + 1], HexDigits[(byte % 16) + 1]>>

RECURSIVE asciiToHexBytes(_)
asciiToHexBytes(bytes) ==
    IF bytes = <<>> THEN <<>>
    ELSE sprintf02X(Head(bytes)) \o asciiToHexBytes(Tail(bytes))

\* (char)strtol(hexByte.c_str(), NULL, 16) of two characters
strtol16(hexByte) ==
    LET hi == HexValue[hexByte[1]]
        lo == HexValue[hexByte[2]]
    IN (IF hi < 0 THEN 0 ELSE IF lo < 0 THEN hi ELSE 16 * hi + lo) % 256

RECURSIVE hexToAsciiBytes(_)
hexToAsciiBytes(hex) ==
    IF Len(hex) < 2 THEN <<>>
    ELSE <<strtol16(SubSeq(hex, 1, 2))>> \o hexToAsciiBytes(SubSeq(hex, 3, Len(hex)))

P2P_MSG_PREFIX == <<"T", "H", "E", "R", "M", "O">>

\* ProtocolHelper::createP2PMessage
createP2PMessage(command) == P2P_MSG_PREFIX \o command

\* ProtocolHelper::parseP2PMessage
parseP2PMessage(message) ==
    IF startsWith(message, P2P_MSG_PREFIX)
    THEN SubSeq(message, Len(P2P_MSG_PREFIX) + 1, Len(message))
    ELSE <<>>

\* the payload sendP2PMessage puts into AT+TEST=TXLRPKT; sendCommand passes it the
\* command
sendP2PMessage(message) == asciiToHex(message)

\* what receiveP2PMessage returns for the payload of a +TEST: RX line, and
\* checkForCommand with it
receiveP2PMessage(hexData) == hexToAscii(hexData)

\* ProtocolHelper::isValidResponse
isValidResponse(response) ==
    \/ response = RESP_STOVE_ON_ACK \/ response = RESP_STOVE_OFF_ACK
    \/ response = RESP_PONG \/ response = RESP_STATUS
    \/ startsWith(response, <<"S", "T", "A", "T", "U", "S", ":">>)
    \/ response = <<"S", "E", "N", "T">>

\* the history of a step that is no call
NoCall(op) ==
    [obj |-> "none", op |-> op, flag |-> FALSE, command |-> <<>>,
     pre |-> RelayControlAfterSetup, preStove |-> StoveRelayAfterSetup,
     ret |-> NoMessage, retStove |-> FALSE]

receiverOnlyVars == <<timeSinceLastCommand, timeSinceValidCommand, ledStatus, responses, ev>>

\* a call on the RelayControl: the object and the returned String after it
Called(op, flag, command, res) ==
    /\ relayControl' = res.relay
    /\ call' = [NoCall(op) EXCEPT !.obj = "RelayControl", !.flag = flag, !.command = command,
                                  !.pre = relayControl, !.ret = res.ret]
    /\ UNCHANGED <<stoveRelay, receiverOnlyVars, senderVars, stoveVars, protocolVars>>

RC_TurnOn == \E force \in BOOLEAN :
    Called("turnOn", force, <<>>, RelayControl_turnOn(relayControl, force))

RC_TurnOff == \E force \in BOOLEAN :
    Called("turnOff", force, <<>>, RelayControl_turnOff(relayControl, force))

RC_ForceState == \E on \in BOOLEAN :
    Called("forceState", on, <<>>,
           [relay |-> RelayControl_forceState(relayControl, on), ret |-> NoMessage])

RC_SetEnabled == \E enable \in BOOLEAN :
    Called("setEnabled", enable, <<>>,
           [relay |-> RelayControl_setEnabled(relayControl, enable), ret |-> NoMessage])

RC_SetRemoteControlEnabled == \E enable \in BOOLEAN :
    Called("setRemoteControlEnabled", enable, <<>>,
           [relay |-> RelayControl_setRemoteControlEnabled(relayControl, enable),
            ret |-> NoMessage])

RC_SetMinChangeInterval == \E intervalMs \in {DEFAULT_MIN_INTERVAL, OtherInterval} :
    Called("setMinChangeInterval", FALSE, <<>>,
           [relay |-> RelayControl_setMinChangeInterval(relayControl, intervalMs),
            ret |-> NoMessage])

RC_ProcessRemoteCommand == \E command \in RemoteTexts :
    Called("processRemoteCommand", FALSE, command,
           RelayControl_processRemoteCommand(relayControl, command))

\* a call on the StoveRelay made directly (not through the receiver's loop)
CalledStove(op, flag, res) ==
    /\ stoveRelay' = res.relay
    /\ call' = [NoCall(op) EXCEPT !.obj = "StoveRelay", !.flag = flag,
                                  !.preStove = stoveRelay, !.retStove = res.ret]
    /\ UNCHANGED <<relayControl, receiverOnlyVars, senderVars, stoveVars, protocolVars>>

SR_TurnOn == \E readBackOk \in BOOLEAN :
    CalledStove("turnOn", FALSE, StoveRelay_turnOn(stoveRelay, readBackOk))

SR_TurnOff == \E readBackOk \in BOOLEAN :
    CalledStove("turnOff", FALSE, StoveRelay_turnOff(stoveRelay, readBackOk))

SR_ForceState == \E state \in BOOLEAN, readBackOk \in BOOLEAN :
    CalledStove("forceState", state, StoveRelay_forceState(stoveRelay, state, readBackOk))

\* time passes between two calls
CallsElapse(d) ==
    /\ relayControl' = [relayControl EXCEPT !.elapsed = Saturate(@ + d, RelayCap)]
    /\ stoveRelay' = [stoveRelay EXCEPT !.timeSinceLastChange = Saturate(@ + d, DwellCap)]
    /\ call' = NoCall("elapse")
    /\ UNCHANGED <<receiverOnlyVars, senderVars, stoveVars, protocolVars>>

\* short steps are told apart only right after a state change of the RelayControl
CallsElapseShort ==
    /\ relayControl.elapsed < FineWindow
    /\ CallsElapse(FineStep)

CallsElapseLong == CallsElapse(RelayCoarseStep)

RelayNext ==
    \/ RC_TurnOn \/ RC_TurnOff \/ RC_ForceState \/ RC_SetEnabled
    \/ RC_SetRemoteControlEnabled \/ RC_SetMinChangeInterval
    \/ RC_ProcessRemoteCommand \/ CallsElapseShort \/ CallsElapseLong

\* both relay drivers, switched and forced by their callers
ForceNext ==
    \/ RC_TurnOn \/ RC_TurnOff \/ RC_ForceState \/ RC_SetEnabled
    \/ SR_TurnOn \/ SR_TurnOff \/ SR_ForceState
    \/ CallsElapseShort \/ CallsElapseLong

----------------------------------------------------------------------------
(* src/lora_transmitter.cpp.  The modem and the air are the inputs of a    *)
(* call: for each transmission attempt, whether the modem reported the     *)
(* packet as sent (and, for a confirmed LoRaWAN uplink, acknowledged by    *)
(* the network), and the messages decoded in the receive window that       *)
(* follows.  lastError and the two timestamps are not kept.                *)

Modes == {"P2P", "LoRaWAN"}

OtherMode(mode) == IF mode = "P2P" THEN "LoRaWAN" ELSE "P2P"

\* the transmitter after a setup() that returned true (P2P unless the P2P
\* configuration failed); clearStatistics() has run
TransmitterAfterSetup(mode) ==
    [isInitialized |-> TRUE, currentMode |-> mode,
     successfulTransmissions |-> 0, failedTransmissions |-> 0, totalRetries |-> 0]

Failure == <<>>

SENT == <<"S", "E", "N", "T">>

\* what one transmission attempt meets
Outcome(sent, rx) == [sent |-> sent, rx |-> rx]

\* the response a confirmed attempt ends with: receiveP2PMessage returns the first
\* message decoded, whatever it is; the LoRaWAN wait loop reads on until a message
\* passes isValidResponse or the window closes
RECURSIVE FirstValid(_)
FirstValid(rx) ==
    IF rx = <<>> THEN Failure
    ELSE IF isValidResponse(Head(rx)) THEN Head(rx)
    ELSE FirstValid(Tail(rx))

AttemptResponse(mode, rx) ==
    IF mode = "P2P"
    THEN (IF rx # <<>> /\ isValidResponse(Head(rx)) THEN Head(rx) ELSE Failure)
    ELSE FirstValid(rx)

\* the retry loop of sendCommand from iteration attempt on
RECURSIVE SendAttempts(_, _, _, _, _)
SendAttempts(t, attempt, confirmed, maxRetries, transport) ==
    IF attempt > maxRetries
    THEN [transmitter |-> [t EXCEPT !.failedTransmissions = @ + 1],
          ret |-> Failure, attempts |-> attempt]
    ELSE LET t1 == IF attempt > 0 THEN [t EXCEPT !.totalRetries = @ + 1] ELSE t
             o == transport[attempt + 1]
             response == AttemptResponse(t.currentMode, o.rx)
         IN IF o.sent /\ ~confirmed
            THEN [transmitter |-> [t1 EXCEPT !.successfulTransmissions = @ + 1],
                  ret |-> SENT, attempts |-> attempt + 1]
            ELSE IF o.sent /\ response # Failure
            THEN [transmitter |-> [t1 EXCEPT !.successfulTransmissions = @ + 1],
                  ret |-> response, attempts |-> attempt + 1]
            ELSE SendAttempts(t1, attempt + 1, confirmed, maxRetries, transport)

\* variant: one attempt fewer than maxRetries + 1
LoRaTransmitter_sendCommand_short(t, command, confirmed, maxRetries, transport) ==
    IF ~t.isInitialized
    THEN [transmitter |-> t, ret |-> Failure, attempts |-> 0]
    ELSE IF ~isValidCommand(command)
    THEN [transmitter |-> [t EXCEPT !.failedTransmissions = @ + 1],
          ret |-> Failure, attempts |-> 0]
    ELSE SendAttempts(t, 0, confirmed, maxRetries - 1, transport)

\* variant: a response is returned without being validated and counted
LoRaTransmitter_sendCommand_uncounted(t, command, confirmed, maxRetries, transport) ==
    IF ~t.isInitialized
    THEN [transmitter |-> t, ret |-> Failure, attempts |-> 0]
    ELSE IF ~isValidCommand(command)
    THEN [transmitter |-> [t EXCEPT !.failedTransmissions = @ + 1],
          ret |-> Failure, attempts |-> 0]
    ELSE IF confirmed /\ transport[1].sent /\ transport[1].rx # <<>>
    THEN [transmitter |-> t, ret |-> Head(transport[1].rx), attempts |-> 1]
    ELSE SendAttempts(t, 0, confirmed, maxRetries, transport)

\* variant: the command is validated by the receiver only
LoRaTransmitter_sendCommand_unvalidated(t, command, confirmed, maxRetries, transport) ==
    IF ~t.isInitialized
    THEN [transmitter |-> t, ret |-> Failure, attempts |-> 0]
    ELSE SendAttempts(t, 0, confirmed, maxRetries, transport)

LoRaTransmitter_sendCommand(t, command, confirmed, maxRetries, transport) ==
    IF ~t.isInitialized
    THEN [transmitter |-> t, ret |-> Failure, attempts |-> 0]
    ELSE IF ~isValidCommand(command)
    THEN [transmitter |-> [t EXCEPT !.failedTransmissions = @ + 1],
          ret |-> Failure, attempts |-> 0]
    ELSE SendAttempts(t, 0, confirmed, maxRetries, transport)

\* variant: the new mode is committed before it is configured
LoRaTransmitter_switchMode_eager(t, mode, configureOk, joinOk) ==
    IF ~t.isInitialized
    THEN [transmitter |-> t, ret |-> FALSE, configured |-> FALSE]
    ELSE IF t.currentMode = mode
    THEN [transmitter |-> t, ret |-> TRUE, configured |-> FALSE]
    ELSE [transmitter |-> [t EXCEPT !.currentMode = mode],
          ret |-> IF mode = "P2P" THEN configureOk ELSE configureOk /\ joinOk,
          configured |-> TRUE]

\* configureOk: configureP2P() resp. configureLoRaWAN() returned true;
\* joinOk: joinNetwork() returned true.  configured: the modem was written to
LoRaTransmitter_switchMode(t, mode, configureOk, joinOk) ==
    IF ~t.isInitialized
    THEN [transmitter |-> t, ret |-> FALSE, configured |-> FALSE]
    ELSE IF t.currentMode = mode
    THEN [transmitter |-> t, ret |-> TRUE, configured |-> FALSE]
    ELSE LET success == IF mode = "P2P" THEN configureOk ELSE configureOk /\ joinOk
         IN [transmitter |-> IF success THEN [t EXCEPT !.currentMode = mode] ELSE t,
             ret |-> success, configured |-> TRUE]

\* receiver/src/lora_receiver.cpp
LoRaReceiver_switchMode(r, mode, configureOk, joinOk) ==
    IF ~r.isInitialized
    THEN [receiver |-> r, ret |-> FALSE, configured |-> FALSE]
    ELSE IF r.currentMode = mode
    THEN [receiver |-> r, ret |-> TRUE, configured |-> FALSE]
    ELSE LET success == IF mode = "P2P" THEN configureOk ELSE configureOk /\ joinOk
         IN [receiver |-> IF success THEN [r EXCEPT !.currentMode = mode] ELSE r,
             ret |-> success, configured |-> TRUE]

\* the mode command configureP2P() resp. configureLoRaWAN() sends first puts the
\* modem into TEST resp. into LWOTAA or LWABP
ModemMode(mode) == IF mode = "P2P" THEN "TEST" ELSE "LW"

\* the modem of endpoint e after switchMode(mode), on a modem that was in the mode
\* of e before.  modeAccepted: the mode command of the configure function was
\* accepted, whatever became of the commands after it
ModemAfterSwitch(e, mode, modeAccepted) ==
    IF e.isInitialized /\ e.currentMode # mode /\ modeAccepted
    THEN ModemMode(mode) ELSE ModemMode(e.currentMode)

\* setConfiguration stores the configuration and, on an initialized transmitter,
\* calls configureLoRaWAN() in whatever mode the transmitter is
LoRaTransmitter_setConfiguration(t, modeAccepted, configureOk) ==
    IF t.isInitialized
    THEN [transmitter |-> t, ret |-> configureOk,
          modem |-> IF modeAccepted THEN ModemMode("LoRaWAN") ELSE ModemMode(t.currentMode)]
    ELSE [transmitter |-> t, ret |-> TRUE, modem |-> ModemMode(t.currentMode)]

\* how far a configure function can have got: it returns true only if its mode
\* command was accepted
ModeAccepted(configureOk) == {b \in BOOLEAN : configureOk => b}

\* the LoRaReceiver after a setup() that returned true
LoRaReceiverAfterSetup(mode) == [isInitialized |-> TRUE, currentMode |-> mode]

LoRaTransmitter_clearStatistics(t) ==
    [t EXCEPT !.successfulTransmissions = 0, !.failedTransmissions = 0, !.totalRetries = 0]

\* variant: no second send after the switch
LoRaTransmitter_sendCommandWithFallback_noRetry(t, command, maxRetries, transport1, configureOk, joinOk, transport2) ==
    LET r1 == LoRaTransmitter_sendCommand(t, command, TRUE, maxRetries, transport1)
        sw == LoRaTransmitter_switchMode(r1.transmitter, OtherMode(r1.transmitter.currentMode),
                                         configureOk, joinOk)
    IN IF ~t.isInitialized \/ r1.ret # Failure
       THEN [transmitter |-> r1.transmitter, ret |-> r1.ret, attempts |-> r1.attempts,
             primaryRet |-> r1.ret, switchCalls |-> 0, switchOk |-> FALSE,
             fallbackAttempts |-> 0]
       ELSE [transmitter |-> sw.transmitter, ret |-> Failure, attempts |-> r1.attempts,
             primaryRet |-> r1.ret, switchCalls |-> 1, switchOk |-> sw.ret,
             fallbackAttempts |-> 0]

\* variant: the transmitter returns to the mode it came from when the second send
\* fails as well
LoRaTransmitter_sendCommandWithFallback_switchBack(t, command, maxRetries, transport1, configureOk, joinOk, transport2) ==
    LET r1 == LoRaTransmitter_sendCommand(t, command, TRUE, maxRetries, transport1)
        sw == LoRaTransmitter_switchMode(r1.transmitter, OtherMode(r1.transmitter.currentMode),
                                         configureOk, joinOk)
        r2 == LoRaTransmitter_sendCommand(sw.transmitter, command, TRUE, maxRetries, transport2)
    IN IF ~t.isInitialized \/ r1.ret # Failure
       THEN [transmitter |-> r1.transmitter, ret |-> r1.ret, attempts |-> r1.attempts,
             primaryRet |-> r1.ret, switchCalls |-> 0, switchOk |-> FALSE,
             fallbackAttempts |-> 0]
       ELSE IF sw.ret
       THEN [transmitter |-> IF r2.ret = Failure
                             THEN [r2.transmitter EXCEPT !.currentMode = t.currentMode]
                             ELSE r2.transmitter,
             ret |-> r2.ret, attempts |-> r1.attempts + r2.attempts,
             primaryRet |-> r1.ret, switchCalls |-> 1, switchOk |-> TRUE,
             fallbackAttempts |-> r2.attempts]
       ELSE [transmitter |-> sw.transmitter, ret |-> Failure, attempts |-> r1.attempts,
             primaryRet |-> r1.ret, switchCalls |-> 1, switchOk |-> FALSE,
             fallbackAttempts |-> 0]

\* transport1 is met in the active mode, transport2 in the other mode
LoRaTransmitter_sendCommandWithFallback(t, command, maxRetries, transport1, configureOk, joinOk, transport2) ==
    LET r1 == LoRaTransmitter_sendCommand(t, command, TRUE, maxRetries, transport1)
        sw == LoRaTransmitter_switchMode(r1.transmitter, OtherMode(r1.transmitter.currentMode),
                                         configureOk, joinOk)
        r2 == LoRaTransmitter_sendCommand(sw.transmitter, command, TRUE, maxRetries, transport2)
    IN IF ~t.isInitialized \/ r1.ret # Failure
       THEN [transmitter |-> r1.transmitter, ret |-> r1.ret, attempts |-> r1.attempts,
             primaryRet |-> r1.ret, switchCalls |-> 0, switchOk |-> FALSE,
             fallbackAttempts |-> 0]
       ELSE IF sw.ret
       THEN [transmitter |-> r2.transmitter, ret |-> r2.ret,
             attempts |-> r1.attempts + r2.attempts,
             primaryRet |-> r1.ret, switchCalls |-> 1, switchOk |-> TRUE,
             fallbackAttempts |-> r2.attempts]
       ELSE [transmitter |-> sw.transmitter, ret |-> Failure, attempts |-> r1.attempts,
             primaryRet |-> r1.ret, switchCalls |-> 1, switchOk |-> FALSE,
             fallbackAttempts |-> 0]

(* Bounds of the calls made on the transmitter *)

\* the largest maxRetries a caller passes to sendCommand, to sendCommandWithFallback
MaxRetriesBound == 2
FallbackRetriesBound == 1
\* sendCommand is called while each statistics counter is below this
StatCap == 2

TxCommands ==
    { CMD_STOVE_ON, <<"s", "t", "o", "v", "e", "_", "o", "n">>, <<"b", "a", "n", "a", "n", "a">> }

\* what an attempt can meet: the modem does not report the packet as sent; it is
\* sent and nothing comes back; ACK, STOVE_ON_ACK, or ACK followed by STOVE_ON_ACK
\* come back
AttemptOutcomes ==
    { Outcome(FALSE, <<>>), Outcome(TRUE, <<>>), Outcome(TRUE, <<RESP_ACK>>),
      Outcome(TRUE, <<RESP_STOVE_ON_ACK>>), Outcome(TRUE, <<RESP_ACK, RESP_STOVE_ON_ACK>>) }

\* in a call with fallback: ACK or STOVE_ON_ACK comes back
FallbackOutcomes ==
    { Outcome(TRUE, <<RESP_ACK>>), Outcome(TRUE, <<RESP_STOVE_ON_ACK>>) }

\* the receive window matters only to a confirmed send of a command that is sent
OutcomesFor(outcomes, command, confirmed) ==
    IF ~isValidCommand(command) THEN {Outcome(FALSE, <<>>)}
    ELSE IF ~confirmed THEN {Outcome(FALSE, <<>>), Outcome(TRUE, <<>>)}
    ELSE outcomes

Transports(outcomes, maxRetries) == [1..(maxRetries + 1) -> outcomes]

\* the attempt gets the command through: sent, and answered validly if an answer
\* is waited for
Delivers(mode, confirmed, o) ==
    o.sent /\ (confirmed => \E i \in 1..Len(o.rx) :
                               /\ isValidResponse(o.rx[i])
                               /\ (mode = "P2P" => i = 1))

\* the history of a step that is no call on the transmitter
NoTx(op) ==
    [obj |-> "LoRaTransmitter", op |-> op, command |-> <<>>, confirmed |-> FALSE, maxRetries |-> 0, mode |-> "P2P",
     pre |-> TransmitterAfterSetup("P2P"), ret |-> Failure, ok |-> FALSE, attempts |-> 0,
     silent |-> FALSE, firstDelivers |-> FALSE, primaryRet |-> Failure,
     switchCalls |-> 0, switchOk |-> FALSE, configured |-> FALSE, couldSwitch |-> FALSE,
     fallbackAttempts |-> 0, wrote |-> FALSE, modem |-> ModemMode("P2P")]

StatisticsBelowCap ==
    /\ transmitter.successfulTransmissions < StatCap
    /\ transmitter.failedTransmissions < StatCap
    /\ transmitter.totalRetries < StatCap

notSenderVars == <<stoveRelay, timeSinceLastCommand, timeSinceValidCommand, ledStatus,
                   responses, ev, relayControl, call>>

TX_SendCommand ==
    /\ StatisticsBelowCap
    /\ \E command \in TxCommands, confirmed \in BOOLEAN, maxRetries \in 0..MaxRetriesBound :
       \E transport \in Transports(OutcomesFor(AttemptOutcomes, command, confirmed),
                                    maxRetries) :
       \E r \in {LoRaTransmitter_sendCommand(transmitter, command, confirmed, maxRetries,
                                             transport)} :
          /\ transmitter' = r.transmitter
          /\ tx' = [NoTx("sendCommand") EXCEPT
                      !.command = command, !.confirmed = confirmed,
                      !.maxRetries = maxRetries, !.pre = transmitter,
                      !.ret = r.ret, !.attempts = r.attempts,
                      !.silent = \A i \in 1..(maxRetries + 1) :
                                    ~Delivers(transmitter.currentMode, confirmed, transport[i]),
                      !.firstDelivers = Delivers(transmitter.currentMode, confirmed,
                                                 transport[1])]
    /\ UNCHANGED <<loraReceiver, notSenderVars, stoveVars, protocolVars>>

TX_SwitchMode ==
    /\ \E mode \in Modes, configureOk \in BOOLEAN, joinOk \in BOOLEAN :
       \E modeAccepted \in ModeAccepted(configureOk) :
       \E r \in {LoRaTransmitter_switchMode(transmitter, mode, configureOk, joinOk)} :
          /\ transmitter' = r.transmitter
          /\ tx' = [NoTx("switchMode") EXCEPT
                      !.modem = ModemAfterSwitch(transmitter, mode, modeAccepted),
                      !.mode = mode, !.pre = transmitter, !.ok = r.ret,
                      !.configured = r.configured,
                      !.couldSwitch = IF mode = "P2P" THEN configureOk
                                      ELSE configureOk /\ joinOk]
    /\ UNCHANGED <<loraReceiver, notSenderVars, stoveVars, protocolVars>>

RX_SwitchMode ==
    /\ \E mode \in Modes, configureOk \in BOOLEAN, joinOk \in BOOLEAN :
       \E modeAccepted \in ModeAccepted(configureOk) :
       \E r \in {LoRaReceiver_switchMode(loraReceiver, mode, configureOk, joinOk)} :
          /\ loraReceiver' = r.receiver
          /\ tx' = [NoTx("switchMode") EXCEPT
                      !.modem = ModemAfterSwitch(loraReceiver, mode, modeAccepted),
                      !.obj = "LoRaReceiver",
                      !.mode = mode, !.pre = loraReceiver, !.ok = r.ret,
                      !.configured = r.configured,
                      !.couldSwitch = IF mode = "P2P" THEN configureOk
                                      ELSE configureOk /\ joinOk]
    /\ UNCHANGED <<transmitter, notSenderVars, stoveVars, protocolVars>>

TX_ClearStatistics ==
    /\ transmitter' = LoRaTransmitter_clearStatistics(transmitter)
    /\ tx' = [NoTx("clearStatistics") EXCEPT !.pre = transmitter]
    /\ UNCHANGED <<loraReceiver, notSenderVars, stoveVars, protocolVars>>

\* what the second send of a call with fallback can meet: nothing is sent in the
\* other mode unless the switch to it succeeds
FallbackTransports(command, maxRetries, couldSwitch) ==
    IF couldSwitch
    THEN Transports(OutcomesFor(FallbackOutcomes, command, TRUE), maxRetries)
    ELSE Transports({Outcome(FALSE, <<>>)}, maxRetries)

TX_SendCommandWithFallback ==
    /\ StatisticsBelowCap
    /\ \E command \in TxCommands, maxRetries \in 0..FallbackRetriesBound,
          configureOk \in BOOLEAN, joinOk \in BOOLEAN :
       \E modeAccepted \in ModeAccepted(configureOk) :
       \E transport1 \in Transports(OutcomesFor(FallbackOutcomes, command, TRUE), maxRetries),
          transport2 \in FallbackTransports(command, maxRetries,
                             IF transmitter.currentMode = "LoRaWAN" THEN configureOk
                             ELSE configureOk /\ joinOk) :
       \E r \in {LoRaTransmitter_sendCommandWithFallback(transmitter, command, maxRetries,
                     transport1, configureOk, joinOk, transport2)} :
          /\ transmitter' = r.transmitter
          /\ tx' = [NoTx("sendCommandWithFallback") EXCEPT
                      !.command = command, !.confirmed = TRUE,
                      !.maxRetries = maxRetries, !.pre = transmitter,
                      !.ret = r.ret, !.attempts = r.attempts,
                      !.silent = \A i \in 1..(maxRetries + 1) :
                                    ~Delivers(transmitter.currentMode, TRUE, transport1[i]),
                      !.firstDelivers = Delivers(OtherMode(transmitter.currentMode), TRUE,
                                                 transport2[1]),
                      !.primaryRet = r.primaryRet, !.switchCalls = r.switchCalls,
                      !.switchOk = r.switchOk,
                      !.couldSwitch = IF transmitter.currentMode = "LoRaWAN" THEN configureOk
                                      ELSE configureOk /\ joinOk,
                      !.fallbackAttempts = r.fallbackAttempts,
                      !.modem = IF r.switchCalls = 1
                                THEN ModemAfterSwitch(transmitter,
                                                      OtherMode(transmitter.currentMode),
                                                      modeAccepted)
                                ELSE ModemMode(transmitter.currentMode)]
    /\ UNCHANGED <<loraReceiver, notSenderVars, stoveVars, protocolVars>>

TX_SetConfiguration ==
    /\ \E configureOk \in BOOLEAN : \E modeAccepted \in ModeAccepted(configureOk) :
       \E r \in {LoRaTransmitter_setConfiguration(transmitter, modeAccepted, configureOk)} :
          /\ transmitter' = r.transmitter
          /\ tx' = [NoTx("setConfiguration") EXCEPT
                      !.mode = "LoRaWAN", !.pre = transmitter, !.ok = r.ret,
                      !.configured = transmitter.isInitialized,
                      !.couldSwitch = configureOk, !.modem = r.modem]
    /\ UNCHANGED <<loraReceiver, notSenderVars, stoveVars, protocolVars>>

TransmitterNext ==
    \/ TX_SendCommand \/ TX_SwitchMode \/ TX_ClearStatistics \/ TX_SendCommandWithFallback
    \/ RX_SwitchMode \/ TX_SetConfiguration

----------------------------------------------------------------------------
(* The two units over a P2P link that loses nothing: what sendP2PMessage   *)
(* of one unit sends is what receiveP2PMessage of the other decodes.       *)

\* delay(1000) before a P2P retry
P2P_RETRY_DELAY == 1000

\* the receiver between two attempts
AfterRetryDelay(rcv) ==
    [rcv EXCEPT !.relay.timeSinceLastChange = Saturate(@ + P2P_RETRY_DELAY, DwellCap),
                !.sinceCommand = Saturate(@ + P2P_RETRY_DELAY, WindowCap),
                !.sinceValid = Saturate(@ + P2P_RETRY_DELAY, WindowCap)]

\* the states of the receiver after the attempts 1, 2, .. n of a sendCommand: each
\* attempt's packet is decoded by checkForCommand in an iteration of loop(); the
\* relay pin reads back what was written
RECURSIVE ReceiverAfterAttempts(_, _, _)
ReceiverAfterAttempts(rcv, decoded, n) ==
    IF n = 0 THEN <<>>
    ELSE <<LoopStep(rcv, decoded, TRUE, TRUE)>>
         \o ReceiverAfterAttempts(AfterRetryDelay(LoopStep(rcv, decoded, TRUE, TRUE)),
                                  decoded, n - 1)

\* what the sender decodes after each attempt: the responses of the receiver
LinkTransport(after) ==
    [n \in 1..Len(after) |->
        Outcome(TRUE, [i \in 1..Len(after[n].sent) |-> hexToAscii(asciiToHex(after[n].sent[i]))])]

LinkCommands == {CMD_STOVE_ON, CMD_STOVE_OFF, CMD_STATUS_REQUEST}

\* sendCommand(command, port, true, maxRetries) on the control unit, answered by
\* the relay unit.  op: the function of the transmitter that makes the call
LinkExchange(op, command, maxRetries) ==
    /\ StatisticsBelowCap
    /\ transmitter.currentMode = "P2P" /\ loraReceiver.currentMode = "P2P"
    /\ \E decoded \in {hexToAscii(asciiToHex(command))} :
       \E after \in {ReceiverAfterAttempts(ReceiverNow, decoded, maxRetries + 1)} :
       \E transport \in {LinkTransport(after)} :
       \E r \in {LoRaTransmitter_sendCommand(transmitter, command, TRUE, maxRetries, transport)} :
          /\ transmitter' = r.transmitter
          /\ stoveRelay' = after[r.attempts].relay
          /\ ledStatus' = after[r.attempts].led
          /\ responses' = after[1].sent
          /\ timeSinceLastCommand' = after[r.attempts].sinceCommand
          /\ timeSinceValidCommand' = after[r.attempts].sinceValid
          /\ ev' = after[1].ev
          /\ tx' = [NoTx(op) EXCEPT
                      !.command = command, !.confirmed = TRUE, !.maxRetries = maxRetries,
                      !.pre = transmitter, !.ret = r.ret, !.attempts = r.attempts,
                      !.ok = (r.ret = RESP_PONG)]
    /\ UNCHANGED <<loraReceiver, relayControl, call, stoveVars, protocolVars>>

LinkSendCommand ==
    \E command \in LinkCommands, maxRetries \in 0..MaxRetriesBound :
       LinkExchange("linkSendCommand", command, maxRetries)

\* ping() sends PING with two retries and returns whether the response is PONG
PING_RETRIES == 2

LoRaTransmitter_ping == LinkExchange("ping", CMD_PING, PING_RETRIES)

LinkClearStatistics ==
    /\ transmitter' = LoRaTransmitter_clearStatistics(transmitter)
    /\ tx' = [NoTx("clearStatistics") EXCEPT !.pre = transmitter]
    /\ ev' = NoEvent("clearStatistics")
    /\ UNCHANGED <<loraReceiver, stoveRelay, timeSinceLastCommand, timeSinceValidCommand,
                   ledStatus, responses, relayControl, call, stoveVars, protocolVars>>

LinkNext == LinkSendCommand \/ LinkClearStatistics \/ ElapseLong \/ LoRaTransmitter_ping

----------------------------------------------------------------------------
(* src/stove.cpp and stove.cpp: the thermostat.  Temperatures are counted  *)
(* in tenths of a degree Fahrenheit; for room temperatures (64 to 128      *)
(* degrees, one binade of float) the float subtraction and comparisons of  *)
(* the source are exact on tenths.  The texts shown on the display         *)
(* (statusDisplayText, lastLoRaResponse) are not kept; the String each     *)
(* operation returns is.  The desired temperature (base temperature plus   *)
(* the hour's offset) is an input of update.                               *)

RESP_STOVE_ON == CMD_STOVE_ON
RESP_STOVE_OFF == CMD_STOVE_OFF

STOVE_HYSTERESIS_LOW == 20
STOVE_HYSTERESIS_HIGH == 5
SAFETY_MAX_TEMP == 820
STATUS_UPDATE_INTERVAL == 30000

\* variant: one threshold, reached or exceeded, whatever the state
shouldBeOn_symmetric(currentState, tempDiff) == tempDiff >= STOVE_HYSTERESIS_LOW

\* the hysteresis decision of update, the same in both controllers
shouldBeOn(currentState, tempDiff) ==
    IF currentState = "STOVE_OFF" \/ currentState = "STOVE_PENDING_OFF"
    THEN tempDiff >= STOVE_HYSTERESIS_LOW
    ELSE tempDiff > STOVE_HYSTERESIS_HIGH

(* The controller of src/stove.cpp *)

\* after setup(), setLoRaTransmitter(&loraTransmitter) and setLoRaControlEnabled(true)
StoveAfterSetup ==
    [loraTransmitter |-> TRUE, currentState |-> "STOVE_OFF",
     lastCommandedState |-> "STOVE_OFF", sinceStateChange |-> 0, sinceStatusUpdate |-> 0,
     minChangeInterval |-> 180000, enabled |-> TRUE, manualOverride |-> FALSE,
     loraControlEnabled |-> TRUE]

\* what a Stove operation leaves: the controller, its RelayControl, the transmitter,
\* the String returned, the commands handed to sendCommand and the response to the
\* ON or OFF command among them; status is the response to a status request
StoveResult(s, rc, t, ret, sent, response) ==
    [stove |-> s, relay |-> rc, transmitter |-> t, ret |-> ret, sent |-> sent,
     response |-> response, status |-> <<>>]

Stove_getTimeUntilNextChange(s) ==
    IF s.sinceStateChange >= s.minChangeInterval THEN 0
    ELSE (s.minChangeInterval - s.sinceStateChange) \div 1000

Stove_sendLoRaCommand(s, rc, t, command, transport) ==
    IF ~s.loraTransmitter
    THEN StoveResult(s, rc, t, NoMessage, <<>>,
             <<"N", "o", " ", "t", "r", "a", "n", "s", "m", "i", "t", "t", "e", "r">>)
    ELSE IF ~t.isInitialized
    THEN StoveResult(s, rc, t, NoMessage, <<>>,
             <<"T", "r", "a", "n", "s", "m", "i", "t", "t", "e", "r", " ",
               "n", "o", "t", " ", "r", "e", "a", "d", "y">>)
    ELSE LET r == LoRaTransmitter_sendCommand(t, command, TRUE, 2, transport)
         IN StoveResult([s EXCEPT !.sinceStatusUpdate = 0], rc, r.transmitter, NoMessage,
                        <<command>>,
                        IF r.ret = <<>> THEN <<"T", "I", "M", "E", "O", "U", "T">> ELSE r.ret)

\* variant: the state is recorded once the command was handed to the transmitter
Stove_turn_assumed(s, rc, t, on, transport) ==
    LET target == IF on THEN "STOVE_ON" ELSE "STOVE_OFF"
        r == Stove_sendLoRaCommand(s, rc, t, IF on THEN CMD_STOVE_ON ELSE CMD_STOVE_OFF,
                                   transport)
    IN IF ~s.loraControlEnabled \/ ~s.loraTransmitter
       THEN StoveResult(s, rc, t, Message("LoRa not available", 0, <<>>), <<>>, <<>>)
       ELSE IF ~RelayControl_canChangeState(rc) /\ s.lastCommandedState # target
       THEN StoveResult(s, rc, t, Message("Wait Ns", Stove_getTimeUntilNextChange(s), <<>>),
                        <<>>, <<>>)
       ELSE StoveResult([r.stove EXCEPT !.currentState = target,
                                        !.lastCommandedState = target,
                                        !.sinceStateChange = 0],
                        rc, r.transmitter,
                        Message(IF on THEN "Stove: Remote turned ON"
                                ELSE "Stove: Remote turned OFF", 0, <<>>),
                        r.sent, r.response)

\* turnOn() (on) and turnOff() (~on)
Stove_turn(s, rc, t, on, transport) ==
    LET target == IF on THEN "STOVE_ON" ELSE "STOVE_OFF"
        r == Stove_sendLoRaCommand(s, rc, t, IF on THEN CMD_STOVE_ON ELSE CMD_STOVE_OFF,
                                   transport)
    IN IF ~s.loraControlEnabled \/ ~s.loraTransmitter
       THEN StoveResult(s, rc, t, Message("LoRa not available", 0, <<>>), <<>>, <<>>)
       ELSE IF ~RelayControl_canChangeState(rc) /\ s.lastCommandedState # target
       THEN StoveResult(s, rc, t, Message("Wait Ns", Stove_getTimeUntilNextChange(s), <<>>),
                        <<>>, <<>>)
       ELSE IF r.response = (IF on THEN RESP_STOVE_ON ELSE RESP_STOVE_OFF)
       THEN StoveResult([r.stove EXCEPT !.currentState = target,
                                        !.lastCommandedState = target,
                                        !.sinceStateChange = 0],
                        rc, r.transmitter,
                        Message(IF on THEN "Stove: Remote turned ON"
                                ELSE "Stove: Remote turned OFF", 0, <<>>),
                        r.sent, r.response)
       ELSE StoveResult(r.stove, rc, r.transmitter, Message("Failed: ", 0, r.response),
                        r.sent, r.response)

Stove_updateRemoteStatus(s, rc, t, transport) ==
    IF ~s.loraControlEnabled \/ ~s.loraTransmitter
    THEN StoveResult(s, rc, t, NoMessage, <<>>, <<>>)
    ELSE IF s.sinceStatusUpdate > STATUS_UPDATE_INTERVAL
    THEN LET r == Stove_sendLoRaCommand(s, rc, t, CMD_STATUS_REQUEST, transport)
         IN [StoveResult(IF r.response = RESP_STOVE_ON
                         THEN [r.stove EXCEPT !.currentState = "STOVE_ON"]
                         ELSE IF r.response = RESP_STOVE_OFF
                         THEN [r.stove EXCEPT !.currentState = "STOVE_OFF"]
                         ELSE r.stove,
                         rc, r.transmitter, NoMessage, r.sent, <<>>)
             EXCEPT !.status = r.response]
    ELSE StoveResult(s, rc, t, NoMessage, <<>>, <<>>)

\* variant: the automatic control also runs while the manual override is active
Stove_update_overridden(s, rc, t, currentTemp, desiredTemp, statusTransport, transport) ==
    IF ~s.enabled \/ ~(s.loraControlEnabled /\ s.loraTransmitter)
    THEN StoveResult(s, rc, t, NoMessage, <<>>, <<>>)
    ELSE LET u == Stove_updateRemoteStatus(s, rc, t, statusTransport)
             on == shouldBeOn(u.stove.currentState, desiredTemp - currentTemp)
             r == IF on /\ u.stove.currentState = "STOVE_OFF" /\ RelayControl_canChangeState(rc)
                  THEN Stove_turn(u.stove, rc, u.transmitter, TRUE, transport)
                  ELSE IF ~on /\ u.stove.currentState = "STOVE_ON"
                          /\ RelayControl_canChangeState(rc)
                  THEN Stove_turn(u.stove, rc, u.transmitter, FALSE, transport)
                  ELSE StoveResult(u.stove, rc, u.transmitter, NoMessage, <<>>, <<>>)
         IN [r EXCEPT !.sent = u.sent \o r.sent, !.status = u.status]

\* update(currentTemp, hourOfWeek); the String returned is the display text
Stove_update(s, rc, t, currentTemp, desiredTemp, statusTransport, transport) ==
    IF s.manualOverride \/ ~s.enabled \/ ~(s.loraControlEnabled /\ s.loraTransmitter)
    THEN StoveResult(s, rc, t, NoMessage, <<>>, <<>>)
    ELSE LET u == Stove_updateRemoteStatus(s, rc, t, statusTransport)
             on == shouldBeOn(u.stove.currentState, desiredTemp - currentTemp)
             r == IF on /\ u.stove.currentState = "STOVE_OFF" /\ RelayControl_canChangeState(rc)
                  THEN Stove_turn(u.stove, rc, u.transmitter, TRUE, transport)
                  ELSE IF ~on /\ u.stove.currentState = "STOVE_ON"
                          /\ RelayControl_canChangeState(rc)
                  THEN Stove_turn(u.stove, rc, u.transmitter, FALSE, transport)
                  ELSE StoveResult(u.stove, rc, u.transmitter, NoMessage, <<>>, <<>>)
         IN [r EXCEPT !.sent = u.sent \o r.sent, !.status = u.status]

Stove_forceState(s, rc, t, on) ==
    StoveResult([s EXCEPT !.currentState = IF on THEN "STOVE_ON" ELSE "STOVE_OFF",
                          !.sinceStateChange = 0],
                RelayControl_forceState(rc, on), t, NoMessage, <<>>, <<>>)

\* variant: the operator's request is followed at any temperature
Stove_toggleManualOverride_unguarded(s, rc, t, currentTemp) ==
    LET f == Stove_forceState([s EXCEPT !.manualOverride = ~s.manualOverride], rc, t,
                              ~s.manualOverride)
    IN StoveResult(f.stove, f.relay, t,
                   Message(IF s.manualOverride THEN "OFF" ELSE "MANUAL ON", 0, <<>>),
                   <<>>, <<>>)

Stove_toggleManualOverride(s, rc, t, currentTemp) ==
    IF ~s.manualOverride /\ ~(currentTemp <= SAFETY_MAX_TEMP)
    THEN StoveResult(s, rc, t, Message("OFF (Safety)", 0, <<>>), <<>>, <<>>)
    ELSE LET f == Stove_forceState([s EXCEPT !.manualOverride = ~s.manualOverride], rc, t,
                                   ~s.manualOverride)
         IN StoveResult(f.stove, f.relay, t,
                        Message(IF s.manualOverride THEN "OFF" ELSE "MANUAL ON", 0, <<>>),
                        <<>>, <<>>)

\* clearManualOverride() ends the override and leaves the state to the next update()
Stove_clearManualOverride(s, rc, t) ==
    StoveResult([s EXCEPT !.manualOverride = FALSE], rc, t, NoMessage, <<>>, <<>>)

(* The controller of stove.cpp, which switches its own relay pin *)

LocalStoveAfterSetup ==
    [currentState |-> "STOVE_OFF", relayPin |-> "LOW", sinceStateChange |-> 0,
     minChangeInterval |-> 300000, enabled |-> TRUE, manualOverride |-> FALSE]

LocalStove_canChangeState(s) == s.sinceStateChange >= s.minChangeInterval

LocalStove_forceState(s, on) ==
    [s EXCEPT !.currentState = IF on THEN "STOVE_ON" ELSE "STOVE_OFF",
              !.sinceStateChange = 0,
              !.relayPin = IF on THEN "HIGH" ELSE "LOW"]

\* turnOn() (on) and turnOff() (~on)
LocalStove_turn(s, on) ==
    IF ~LocalStove_canChangeState(s)
       /\ s.currentState # (IF on THEN "STOVE_PENDING_ON" ELSE "STOVE_PENDING_OFF")
    THEN [stove |-> s, ret |-> Message("", 0, <<>>)]
    ELSE [stove |-> LocalStove_forceState(s, on),
          ret |-> Message(IF on THEN "Stove: Turned ON" ELSE "Stove: Turned OFF", 0, <<>>)]

\* setEnabled(enable): disabling the automatic control switches a stove that is On off
LocalStove_setEnabled(s, enable) ==
    IF ~enable /\ s.currentState = "STOVE_ON"
    THEN LocalStove_forceState([s EXCEPT !.enabled = enable], FALSE)
    ELSE [s EXCEPT !.enabled = enable]

LocalStove_update(s, currentTemp, desiredTemp) ==
    IF s.manualOverride
    THEN [stove |-> s,
          ret |-> Message(IF s.currentState = "STOVE_ON" THEN "ON" ELSE "OFF", 0, <<>>)]
    ELSE IF ~s.enabled
    THEN [stove |-> s, ret |-> Message("Stove: not enabled", 0, <<>>)]
    ELSE LET on == shouldBeOn(s.currentState, desiredTemp - currentTemp)
             offSide == s.currentState \in {"STOVE_OFF", "STOVE_PENDING_OFF"}
             decided ==
                 IF on /\ offSide
                 THEN (IF LocalStove_canChangeState(s) THEN LocalStove_turn(s, TRUE)
                       ELSE [stove |-> [s EXCEPT !.currentState = "STOVE_PENDING_ON"],
                             ret |-> Message("", 0, <<>>)])
                 ELSE IF ~on /\ ~offSide
                 THEN (IF LocalStove_canChangeState(s) THEN LocalStove_turn(s, FALSE)
                       ELSE [stove |-> [s EXCEPT !.currentState = "STOVE_PENDING_OFF"],
                             ret |-> Message("", 0, <<>>)])
                 ELSE [stove |-> s, ret |-> Message("", 0, <<>>)]
         IN IF decided.stove.currentState = "STOVE_PENDING_ON"
               /\ LocalStove_canChangeState(decided.stove)
            THEN LocalStove_turn(decided.stove, TRUE)
            ELSE IF decided.stove.currentState = "STOVE_PENDING_OFF"
                    /\ LocalStove_canChangeState(decided.stove)
            THEN LocalStove_turn(decided.stove, FALSE)
            ELSE decided

LocalStove_toggleManualOverride(s, currentTemp) ==
    IF ~s.manualOverride /\ ~(currentTemp <= SAFETY_MAX_TEMP)
    THEN [stove |-> s, ret |-> Message("OFF (Safety)", 0, <<>>)]
    ELSE [stove |-> LocalStove_forceState([s EXCEPT !.manualOverride = ~s.manualOverride],
                                          ~s.manualOverride),
          ret |-> Message(IF s.manualOverride THEN "OFF" ELSE "MANUAL ON", 0, <<>>)]

(* Bounds of the calls made on the two controllers *)

\* the passage of time between two calls, and where the timers stop counting
StoveStep == 150000
LocalCap == 302000
StatusCap == 31000

\* the desired temperature, and readings around the two thresholds below it
DesiredTemps == {700}
CurrentTemps == {679, 680, 685, 694, 695, 696}
\* readings at an override request: mild, at the ceiling, above it
OverrideTemps == {700, SAFETY_MAX_TEMP, SAFETY_MAX_TEMP + 1}

\* what the three attempts of a command meet: nothing comes back, or one text does
StoveTransports ==
    { [attempt \in 1..3 |-> Outcome(TRUE, rx)] :
        rx \in { <<>>, <<RESP_ACK>>, <<RESP_STOVE_ON_ACK>>, <<RESP_STOVE_OFF_ACK>>,
                 <<RESP_STOVE_ON>>, <<RESP_STOVE_OFF>> } }

\* the history of a step that is no call on a controller
NoSv(op) ==
    [obj |-> "none", op |-> op, on |-> FALSE, currentTemp |-> 0, desiredTemp |-> 0,
     pre |-> StoveAfterSetup, preLocal |-> LocalStoveAfterSetup,
     preRelay |-> RelayControlAfterSetup, ret |-> NoMessage, sent |-> <<>>,
     response |-> <<>>, shouldBeOn |-> "none", status |-> <<>>]

notStoveVars == <<stoveRelay, receiverOnlyVars, call, loraReceiver, tx, protocolVars>>

\* Both files define the class Stove and the global object stove, so the firmware is
\* built with one of the two controllers: the first call tells which, and sv.obj
\* keeps it.
Built(obj) == sv.obj \in {"none", obj}

\* the statistics are cleared between two calls that transmit
StatisticsCleared == transmitter = LoRaTransmitter_clearStatistics(transmitter)

\* a call on the controller of src/stove.cpp
CalledLoRaStove(op, on, currentTemp, desiredTemp, decision, r) ==
    /\ Built("Stove")
    /\ stove' = r.stove
    /\ relayControl' = r.relay
    /\ transmitter' = r.transmitter
    /\ sv' = [NoSv(op) EXCEPT !.obj = "Stove", !.on = on, !.currentTemp = currentTemp,
                              !.desiredTemp = desiredTemp, !.pre = stove,
                              !.preRelay = relayControl, !.ret = r.ret, !.sent = r.sent,
                              !.response = r.response, !.shouldBeOn = decision,
                              !.status = r.status]
    /\ UNCHANGED <<localStove, notStoveVars>>

ST_Update ==
    /\ StatisticsCleared
    /\ \E currentTemp \in CurrentTemps \cup {SAFETY_MAX_TEMP + 1}, desiredTemp \in DesiredTemps,
          statusTransport \in StoveTransports, transport \in StoveTransports :
       \E r \in {Stove_update(stove, relayControl, transmitter, currentTemp, desiredTemp,
                              statusTransport, transport)} :
          CalledLoRaStove("update", FALSE, currentTemp, desiredTemp,
              IF stove.manualOverride \/ ~stove.enabled
                 \/ ~(stove.loraControlEnabled /\ stove.loraTransmitter) THEN "none"
              ELSE IF shouldBeOn(Stove_updateRemoteStatus(stove, relayControl, transmitter,
                                     statusTransport).stove.currentState,
                                 desiredTemp - currentTemp)
              THEN "on" ELSE "off", r)

ST_Turn ==
    /\ StatisticsCleared
    /\ \E on \in BOOLEAN, transport \in StoveTransports :
       \E r \in {Stove_turn(stove, relayControl, transmitter, on, transport)} :
          CalledLoRaStove(IF on THEN "turnOn" ELSE "turnOff", on, 0, 0, "none", r)

ST_ToggleManualOverride ==
    \E currentTemp \in OverrideTemps :
    \E r \in {Stove_toggleManualOverride(stove, relayControl, transmitter, currentTemp)} :
       CalledLoRaStove("toggleManualOverride", FALSE, currentTemp, 0, "none", r)

ST_ClearManualOverride ==
    CalledLoRaStove("clearManualOverride", FALSE, 0, 0, "none",
                    Stove_clearManualOverride(stove, relayControl, transmitter))

\* setLoRaControlEnabled(enable)
ST_SetLoRaControlEnabled ==
    \E enable \in BOOLEAN :
       CalledLoRaStove("setLoRaControlEnabled", enable, 0, 0, "none",
           StoveResult([stove EXCEPT !.loraControlEnabled = enable], relayControl,
                       transmitter, NoMessage, <<>>, <<>>))

\* setLoRaTransmitter(&loraTransmitter) and setLoRaTransmitter(nullptr)
ST_SetLoRaTransmitter ==
    \E present \in BOOLEAN :
       CalledLoRaStove("setLoRaTransmitter", present, 0, 0, "none",
           StoveResult([stove EXCEPT !.loraTransmitter = present], relayControl,
                       transmitter, NoMessage, <<>>, <<>>))

\* a call on the controller of stove.cpp
CalledLocalStove(op, currentTemp, desiredTemp, decision, r) ==
    /\ Built("LocalStove")
    /\ localStove' = r.stove
    /\ sv' = [NoSv(op) EXCEPT !.obj = "LocalStove", !.currentTemp = currentTemp,
                              !.desiredTemp = desiredTemp, !.preLocal = localStove,
                              !.ret = r.ret, !.shouldBeOn = decision]
    /\ UNCHANGED <<stove, relayControl, transmitter, notStoveVars>>

LS_Update ==
    \E currentTemp \in CurrentTemps, desiredTemp \in DesiredTemps :
       CalledLocalStove("update", currentTemp, desiredTemp,
           IF localStove.manualOverride \/ ~localStove.enabled THEN "none"
           ELSE IF shouldBeOn(localStove.currentState, desiredTemp - currentTemp)
           THEN "on" ELSE "off",
           LocalStove_update(localStove, currentTemp, desiredTemp))

LS_ToggleManualOverride ==
    \E currentTemp \in OverrideTemps :
       CalledLocalStove("toggleManualOverride", currentTemp, 0, "none",
           LocalStove_toggleManualOverride(localStove, currentTemp))

LS_Turn ==
    \E on \in BOOLEAN :
       CalledLocalStove(IF on THEN "turnOn" ELSE "turnOff", 0, 0, "none",
                        LocalStove_turn(localStove, on))

LS_ForceState ==
    \E on \in BOOLEAN :
       CalledLocalStove("forceState", 0, 0, "none",
                        [stove |-> LocalStove_forceState(localStove, on), ret |-> NoMessage])

LS_SetEnabled ==
    \E enable \in BOOLEAN :
       CalledLocalStove("setEnabled", 0, 0, "none",
                        [stove |-> LocalStove_setEnabled(localStove, enable), ret |-> NoMessage])

\* time passes between two calls
StoveElapse ==
    /\ \/ /\ sv.obj = "Stove"
          /\ stove' = [stove EXCEPT
                          !.sinceStateChange = Saturate(@ + StoveStep, RelayCap),
                          !.sinceStatusUpdate = Saturate(@ + StoveStep, StatusCap)]
          /\ relayControl' = [relayControl EXCEPT
                                 !.elapsed = Saturate(@ + StoveStep, RelayCap)]
          /\ UNCHANGED localStove
       \/ /\ sv.obj = "LocalStove"
          /\ localStove' = [localStove EXCEPT
                               !.sinceStateChange = Saturate(@ + StoveStep, LocalCap)]
          /\ UNCHANGED <<stove, relayControl>>
    /\ sv' = [NoSv("elapse") EXCEPT !.obj = sv.obj]
    /\ UNCHANGED <<transmitter, notStoveVars>>

\* clearStatistics() on the transmitter of the controller
ST_ClearStatistics ==
    /\ sv.obj = "Stove"
    /\ transmitter' = LoRaTransmitter_clearStatistics(transmitter)
    /\ sv' = [NoSv("clearStatistics") EXCEPT !.obj = "Stove"]
    /\ UNCHANGED <<stove, relayControl, localStove, notStoveVars>>

StoveNext ==
    \/ ST_Update \/ ST_Turn \/ ST_ToggleManualOverride \/ ST_SetLoRaControlEnabled
    \/ ST_SetLoRaTransmitter \/ ST_ClearStatistics
    \/ LS_Update \/ LS_ToggleManualOverride \/ StoveElapse
    \/ LS_Turn \/ LS_ForceState \/ LS_SetEnabled \/ ST_ClearManualOverride

----------------------------------------------------------------------------
(* Bring-up of an endpoint: LoRaTransmitter::setup of src/lora_transmitter.cpp *)
(* and LoRaReceiver::setup of receiver/src/lora_receiver.cpp, built with the   *)
(* baud search.  The modem is the input: whether and when it answers each     *)
(* command, and with what text.  Times are in milliseconds.                    *)

Units == {"LoRaTransmitter", "LoRaReceiver"}

\* String::indexOf(sub) >= 0
indexOfFound(s, sub) ==
    \E i \in 1..(Len(s) - Len(sub) + 1) : SubSeq(s, i, i + Len(sub) - 1) = sub

OK == <<"O", "K">>

\* the test sendATCommand of the transmitter makes on the trimmed response
LoRaTransmitter_sendATCommand(command, expectedResponse, response) ==
    \/ expectedResponse = <<>>
    \/ indexOfFound(response, expectedResponse)
    \/ /\ expectedResponse = OK
       /\ \/ indexOfFound(response, <<"+", "O", "K">>)
          \/ indexOfFound(response, <<"\n", "O", "K">>)
          \/ indexOfFound(response, <<"\r", "\n", "O", "K">>)
          \/ indexOfFound(response, <<"+", "A", "T", ":", " ", "O", "K">>)
          \/ indexOfFound(response, OK) /\ Len(response) > Len(command)

\* the test sendATCommand of the receiver makes: the same, and any response that
\* begins with "+" passes
LoRaReceiver_sendATCommand(command, expectedResponse, response) ==
    \/ LoRaTransmitter_sendATCommand(command, expectedResponse, response)
    \/ Len(response) > 0 /\ Len(expectedResponse) > 0 /\ response[1] = "+"

AT_MODE_TEST == <<"A", "T", "+", "M", "O", "D", "E", "=", "T", "E", "S", "T">>
AT_TEST_RFCFG == <<"A", "T", "+", "T", "E", "S", "T", "=", "R", "F", "C", "F", "G">>
TEST == <<"T", "E", "S", "T">>
RFCFG == <<"R", "F", "C", "F", "G">>

\* configureP2P of the transmitter: the RF parameters are sent only once the mode
\* switch was accepted.  modeReply, rfReply: what the modem answers
LoRaTransmitter_configureP2P(modeReply, rfReply) ==
    /\ LoRaTransmitter_sendATCommand(AT_MODE_TEST, TEST, modeReply)
    /\ LoRaTransmitter_sendATCommand(AT_TEST_RFCFG, RFCFG, rfReply)

\* configureP2P of the receiver, which expects "OK" to both commands
LoRaReceiver_configureP2P(modeReply, rfReply) ==
    /\ LoRaReceiver_sendATCommand(AT_MODE_TEST, OK, modeReply)
    /\ LoRaReceiver_sendATCommand(AT_TEST_RFCFG, OK, rfReply)

configureP2P(unit, modeReply, rfReply) ==
    IF unit = "LoRaTransmitter"
    THEN LoRaTransmitter_configureP2P(modeReply, rfReply)
    ELSE LoRaReceiver_configureP2P(modeReply, rfReply)

\* what the modem can answer to a configuration command: the two confirmations,
\* its error text, a bare OK, the echo of the command alone, and nothing
ModemReplies ==
    { <<"+", "M", "O", "D", "E", ":", " ", "T", "E", "S", "T">>,
      <<"+", "T", "E", "S", "T", ":", " ", "R", "F", "C", "F", "G">>,
      <<"+", "A", "T", ":", " ", "E", "R", "R", "O", "R", "(", "-", "1", ")">>,
      <<"E", "R", "R", "O", "R">>,
      OK,
      <<>> }

\* the objects as their constructors leave them
LoRaTransmitterConstructed == [TransmitterAfterSetup("P2P") EXCEPT !.isInitialized = FALSE]
LoRaReceiverConstructed == [LoRaReceiverAfterSetup("P2P") EXCEPT !.isInitialized = FALSE]
StoveConstructed == [StoveAfterSetup EXCEPT !.loraTransmitter = FALSE, !.loraControlEnabled = FALSE]

baudRates == <<19200, 9600, 115200>>
BAUD_ATTEMPTS == 5
LORA_INIT_TIMEOUT_MS == 60000
maxAttempts == 3
LORAWAN_JOIN_TIMEOUT == 30000

\* the settling before the attempts at one baud rate: end() and delay(500) except at
\* the first rate, then delay(1000), resp. delay(2000) and the wake-up sequence
BaudSettleTime(unit, baud) ==
    (IF baud = 1 THEN 0 ELSE 500) + (IF unit = "LoRaTransmitter" THEN 1000 ELSE 2400)

\* how long one liveness attempt takes, at the least and at the most, apart from the
\* draining of the buffer: sendATCommand waits 50 ms and then up to its timeout for
\* the reply; a failed attempt is followed by delay(2000), on the receiver by a
\* second "AT" and delay(500) before it
AttemptTimes(unit, ok) ==
    IF unit = "LoRaTransmitter"
    THEN (IF ok THEN {50, 2050} ELSE {2050, 4050})
    ELSE (IF ok THEN {50, 3050} ELSE {2550, 5550})

\* the poll window of one join attempt
JoinWindow(unit) == IF unit = "LoRaTransmitter" THEN LORAWAN_JOIN_TIMEOUT ELSE 35000

\* one readResponse(1000) and delay(1000) of the poll loop
PollTimes == {1000, 2000}

NoAttempt == [baud |-> 0, attempt |-> 0, at |-> 0, ok |-> FALSE]

NoBootCall == [op |-> "none", ret |-> <<>>, ok |-> FALSE, wrote |-> FALSE]

\* no setup() in progress
BootIdle ==
    [unit |-> "none", pc |-> "idle", step |-> "none",
     baud |-> 0, attempt |-> 0, elapsed |-> 0, started |-> 0, established |-> FALSE,
     last |-> NoAttempt,
     modeReply |-> <<>>, rfReply |-> <<>>,
     p2p |-> "untried", lorawan |-> "untried", join |-> "untried",
     joinAttempt |-> 0, joinSent |-> 0, window |-> 0, joinStarted |-> FALSE,
     markers |-> {},
     ret |-> "running", call |-> NoBootCall]

\* the top of the loop over baudRates
SearchNextBaud(b) ==
    IF b.baud > Len(baudRates) \/ b.elapsed >= LORA_INIT_TIMEOUT_MS
    THEN [b EXCEPT !.pc = "searched"]
    ELSE [b EXCEPT !.pc = "attempt", !.attempt = 1,
                   !.elapsed = @ + BaudSettleTime(b.unit, b.baud)]

\* variant: the deadline is looked at between the baud rates only
SearchAttempt_late(b, ok, t) ==
    IF b.attempt > BAUD_ATTEMPTS
    THEN [b EXCEPT !.pc = "baud", !.baud = @ + 1]
    ELSE [b EXCEPT !.started = @ + 1,
                   !.last = [baud |-> b.baud, attempt |-> b.attempt, at |-> b.elapsed,
                             ok |-> ok],
                   !.elapsed = @ + t, !.established = ok,
                   !.pc = IF ok THEN "searched" ELSE "attempt",
                   !.attempt = IF ok THEN @ ELSE @ + 1]

\* one iteration of the loop over the attempts: ok says whether sendATCommand("AT",
\* "OK") returned true, t how long the iteration took
SearchAttempt(b, ok, t) ==
    IF b.attempt > BAUD_ATTEMPTS \/ b.elapsed >= LORA_INIT_TIMEOUT_MS
    THEN [b EXCEPT !.pc = "baud", !.baud = @ + 1]
    ELSE [b EXCEPT !.started = @ + 1,
                   !.last = [baud |-> b.baud, attempt |-> b.attempt, at |-> b.elapsed,
                             ok |-> ok],
                   !.elapsed = @ + t, !.established = ok,
                   !.pc = IF ok THEN "searched" ELSE "attempt",
                   !.attempt = IF ok THEN @ ELSE @ + 1]

\* after the search: return false without communication; otherwise ATE0, whose
\* failure is ignored, and reset()
SearchedAndReset(b, resetOk) ==
    IF ~b.established \/ ~resetOk
    THEN [BootIdle EXCEPT !.unit = b.unit, !.pc = "returned", !.ret = "false"]
    ELSE [BootIdle EXCEPT !.unit = b.unit, !.pc = "p2p"]

\* setup() from "currentMode = P2P; if (configureP2P())" on: the mode it leaves and
\* whether it goes on to the LoRaWAN configuration
SetupP2P(b, modeReply, rfReply) ==
    IF configureP2P(b.unit, modeReply, rfReply)
    THEN [b EXCEPT !.pc = "returned", !.ret = "true", !.p2p = "ok",
                   !.modeReply = modeReply, !.rfReply = rfReply]
    ELSE [b EXCEPT !.pc = "lorawan", !.p2p = "failed",
                   !.modeReply = modeReply, !.rfReply = rfReply]

\* "currentMode = LoRaWAN; if (!configureLoRaWAN()) return false;" and the entry of
\* joinNetwork(), which on the transmitter returns true at once without OTAA
SetupLoRaWAN(b, configureOk, otaa) ==
    IF ~configureOk
    THEN [b EXCEPT !.pc = "returned", !.ret = "false", !.lorawan = "failed",
                   !.modeReply = <<>>, !.rfReply = <<>>]
    ELSE IF b.unit = "LoRaTransmitter" /\ ~otaa
    THEN [b EXCEPT !.pc = "returned", !.ret = "true", !.lorawan = "ok", !.join = "ok",
                   !.modeReply = <<>>, !.rfReply = <<>>]
    ELSE [b EXCEPT !.pc = "join", !.lorawan = "ok", !.joinAttempt = 1,
                   !.modeReply = <<>>, !.rfReply = <<>>]

\* the end of one join attempt that did not join: the next attempt, or "return false"
\* after the last
JoinAttemptOver(b) ==
    IF b.joinAttempt < maxAttempts
    THEN [b EXCEPT !.pc = "join", !.joinAttempt = @ + 1, !.window = 0,
                   !.joinStarted = FALSE]
    ELSE [b EXCEPT !.pc = "returned", !.ret = "false", !.join = "failed", !.window = 0,
                   !.joinStarted = FALSE]

\* the head of one iteration of the loop over the join attempts: accepted says whether
\* sendATCommand("AT+JOIN", "OK") returned true
JoinCommand(b, accepted) ==
    IF accepted
    THEN [b EXCEPT !.pc = "poll", !.joinSent = @ + 1, !.window = 0, !.joinStarted = FALSE,
                   !.markers = {}]
    ELSE JoinAttemptOver([b EXCEPT !.joinSent = @ + 1, !.markers = {}])

Markers == {"+JOIN: Start", "+JOIN: Network joined", "+JOIN: Join failed"}

\* one iteration of the poll loop: markers are those found in the text that
\* readResponse(1000) returned, t is the time the iteration took; the record keeps
\* the markers of the last read
JoinPoll(b, markers, t) ==
    IF b.window >= JoinWindow(b.unit) THEN JoinAttemptOver([b EXCEPT !.markers = {}])
    ELSE IF "+JOIN: Start" \in markers
    THEN [b EXCEPT !.window = @ + t, !.joinStarted = TRUE, !.markers = markers]
    ELSE IF "+JOIN: Network joined" \in markers
    THEN [b EXCEPT !.pc = "returned", !.ret = "true", !.join = "ok", !.window = 0,
                   !.joinStarted = FALSE, !.markers = markers]
    ELSE IF "+JOIN: Join failed" \in markers
    THEN JoinAttemptOver([b EXCEPT !.markers = markers])
    ELSE [b EXCEPT !.window = @ + t, !.markers = markers]

\* variant: isInitialized is set as soon as the LoRaWAN configuration is accepted
EndpointAt_early(e, b) ==
    [e EXCEPT !.currentMode = IF b.p2p = "failed" THEN "LoRaWAN" ELSE "P2P",
              !.isInitialized = (b.ret = "true" \/ b.lorawan = "ok")]

\* the mode and the flag setup() has assigned when it stands at b
EndpointAt(e, b) ==
    [e EXCEPT !.currentMode = IF b.p2p = "failed" THEN "LoRaWAN" ELSE "P2P",
              !.isInitialized = (b.ret = "true")]

\* a step of setup() on the endpoint that is brought up
SetupStep(step, b) ==
    /\ boot' = [b EXCEPT !.step = step, !.call = NoBootCall]
    /\ IF boot.unit = "LoRaTransmitter"
       THEN transmitter' = EndpointAt(transmitter, b) /\ UNCHANGED loraReceiver
       ELSE loraReceiver' = EndpointAt(loraReceiver, b) /\ UNCHANGED transmitter
    /\ UNCHANGED <<notSenderVars, tx, stoveVars, wire, exchange, air>>

SU_Begin ==
    /\ boot.pc = "idle" /\ ~transmitter.isInitialized /\ ~loraReceiver.isInitialized
    /\ \E unit \in Units :
          boot' = [BootIdle EXCEPT !.unit = unit, !.pc = "baud", !.baud = 1,
                                   !.step = "setup"]
    /\ UNCHANGED <<notSenderVars, senderVars, stoveVars, wire, exchange, air>>

SU_NextBaud == boot.pc = "baud" /\ SetupStep("baud", SearchNextBaud(boot))

SU_Attempt ==
    /\ boot.pc = "attempt"
    /\ \E ok \in BOOLEAN : \E t \in AttemptTimes(boot.unit, ok) :
          SetupStep("attempt", SearchAttempt(boot, ok, t))

SU_Reset ==
    /\ boot.pc = "searched"
    /\ \E resetOk \in BOOLEAN : SetupStep("reset", SearchedAndReset(boot, resetOk))

SU_ConfigureP2P ==
    /\ boot.pc = "p2p"
    /\ \E modeReply \in ModemReplies, rfReply \in ModemReplies :
          SetupStep("configureP2P", SetupP2P(boot, modeReply, rfReply))

SU_ConfigureLoRaWAN ==
    /\ boot.pc = "lorawan"
    /\ \E configureOk \in BOOLEAN, otaa \in BOOLEAN :
          SetupStep("configureLoRaWAN", SetupLoRaWAN(boot, configureOk, otaa))

SU_JoinCommand ==
    /\ boot.pc = "join"
    /\ \E accepted \in BOOLEAN : SetupStep("join", JoinCommand(boot, accepted))

SU_JoinPoll ==
    /\ boot.pc = "poll"
    /\ \E markers \in SUBSET Markers, t \in PollTimes :
          SetupStep("poll", JoinPoll(boot, markers, t))

\* LoRaReceiver::checkForCommand: received is the text decoded from the packet the
\* modem hands over, empty if there is none.  In P2P mode the modem is told to listen
LoRaReceiver_checkForCommand(r, received) ==
    IF ~r.isInitialized THEN [ret |-> <<>>, wrote |-> FALSE]
    ELSE [ret |-> received, wrote |-> r.currentMode = "P2P"]

\* setup() of the application after the setup() of its endpoint has returned:
\* src/_thermo.cpp hands the transmitter to the controller, or goes on without;
\* receiver_main.cpp goes on to loop(), or shows the error and stays in setup()
SU_Host ==
    /\ boot.pc = "returned"
    /\ boot' = [boot EXCEPT !.step = "host", !.call = NoBootCall,
                            !.modeReply = <<>>, !.rfReply = <<>>, !.markers = {},
                            !.pc = IF boot.unit = "LoRaReceiver" /\ boot.ret = "false"
                                   THEN "halted" ELSE "ready"]
    /\ stove' = IF boot.unit = "LoRaTransmitter" /\ boot.ret = "true"
                THEN [stove EXCEPT !.loraTransmitter = TRUE, !.loraControlEnabled = TRUE]
                ELSE stove
    /\ ledStatus' = IF boot.unit = "LoRaReceiver" /\ boot.ret = "false"
                    THEN "STATUS_ERROR" ELSE ledStatus
    /\ UNCHANGED <<stoveRelay, timeSinceLastCommand, timeSinceValidCommand, responses, ev,
                   relayControl, call, senderVars, localStove, sv, wire, exchange, air>>

\* calls made on the transmitter once its setup() has returned
SU_SenderCall ==
    /\ boot.pc = "ready" /\ boot.unit = "LoRaTransmitter"
    /\ TX_SendCommand \/ TX_SwitchMode \/ TX_SendCommandWithFallback

\* calls made on the LoRaReceiver once its setup() has returned
SU_ReceiverCall ==
    /\ boot.pc \in {"ready", "halted"} /\ boot.unit = "LoRaReceiver"
    /\ \/ \E received \in InboundStrings \cup {<<>>} :
          \E r \in {LoRaReceiver_checkForCommand(loraReceiver, received)} :
             tx' = [NoTx("checkForCommand") EXCEPT
                       !.obj = "LoRaReceiver", !.pre = loraReceiver, !.command = received,
                       !.ret = r.ret, !.ok = r.ret # <<>>, !.wrote = r.wrote]
       \/ \E response \in {RESP_ACK, RESP_TIMEOUT}, sentOk \in BOOLEAN :
          \E r \in {LoRaReceiver_sendResponse(loraReceiver, response, sentOk)} :
             tx' = [NoTx("sendResponse") EXCEPT
                       !.obj = "LoRaReceiver", !.pre = loraReceiver, !.command = response,
                       !.ok = r.ret, !.wrote = r.wrote]
    /\ UNCHANGED <<transmitter, loraReceiver, notSenderVars, stoveVars, protocolVars>>

\* loop() of the receiver runs once setup() is over
SU_Loop == boot.pc = "ready" /\ boot.unit = "LoRaReceiver" /\ ReceiverLoop

\* the statements of setup(), of the endpoint and of the application
BringUpNext ==
    \/ SU_Begin \/ SU_NextBaud \/ SU_Attempt \/ SU_Reset \/ SU_ConfigureP2P
    \/ SU_ConfigureLoRaWAN \/ SU_JoinCommand \/ SU_JoinPoll \/ SU_Host

SetupNext == BringUpNext \/ SU_SenderCall \/ SU_ReceiverCall \/ SU_Loop

----------------------------------------------------------------------------
(* One AT exchange of the transmitter: sendATCommand with clearSerialBuffer *)
(* and readResponse.  Time is what the delays of the loops add up to, in   *)
(* milliseconds; whether the stream has a byte to read at a test of        *)
(* available(), and what the bytes are, is the modem's choice.             *)

\* clearSerialBuffer gives up after this time
DRAIN_DEADLINE == 1000

\* readResponse takes the response as complete after this silence,
SILENCE_COMPLETE == 500
\* unless it is no longer than SHORT_RESPONSE, holds neither OK nor DONE, and the
\* silence is below SILENCE_MAX
SILENCE_MAX == 2000
SHORT_RESPONSE == 10

\* the timeout of the exchange: that of sendATCommand("AT", "OK", 1000)
AT_TIMEOUT == 1000

\* no exchange in progress
NoExchange ==
    [pc |-> "idle", expects |-> FALSE, drains |-> 0, elapsed |-> 0, silence |-> 0,
     length |-> 0, token |-> FALSE, wrote |-> FALSE, ret |-> "none"]

notExchange == <<notSenderVars, senderVars, stoveVars, boot, wire, air>>

\* the entry of sendATCommand: stream says whether loraSerial is set, expects
\* whether expectedResponse is not empty
SendATCommandEntry(stream, expects) ==
    IF ~stream THEN [NoExchange EXCEPT !.pc = "returned", !.ret = "false"]
    ELSE [NoExchange EXCEPT !.pc = "drain", !.drains = 1, !.expects = expects]

\* what follows a clearSerialBuffer: delay(50) and the second one, or println(command)
\* and either "return true" or readResponse(timeout)
AfterDrain(x) ==
    IF x.drains = 1 THEN [x EXCEPT !.drains = 2, !.elapsed = 0]
    ELSE IF ~x.expects
    THEN [x EXCEPT !.pc = "returned", !.ret = "true", !.wrote = TRUE, !.elapsed = 0]
    ELSE [x EXCEPT !.pc = "read", !.wrote = TRUE, !.elapsed = 0]

\* variant: the drain goes on as long as there is a byte to read
clearSerialBuffer_unbounded(x, available) ==
    IF available THEN [x EXCEPT !.elapsed = @ + 1] ELSE AfterDrain(x)

\* one test of the loop of clearSerialBuffer and, if it passes, read() and delay(1)
clearSerialBuffer(x, available) ==
    IF available /\ x.elapsed < DRAIN_DEADLINE
    THEN [x EXCEPT !.elapsed = @ + 1]
    ELSE AfterDrain(x)

\* the end of readResponse and of sendATCommand: matches says whether the response
\* holds what was expected, which an empty response does not
ReadOver(x, matches) ==
    [x EXCEPT !.pc = "returned", !.ret = IF matches /\ x.length > 0 THEN "true" ELSE "false"]

\* one test of the loop of readResponse and, if it passes, its body: a byte is read,
\* or the silence is looked at; token says whether the response holds OK or DONE
\* once the byte is added.  The length is counted up to SHORT_RESPONSE + 1
readResponse(x, timeout, available, token, matches) ==
    IF x.elapsed >= timeout THEN ReadOver(x, matches)
    ELSE IF available
    THEN [x EXCEPT !.length = IF @ > SHORT_RESPONSE THEN @ ELSE @ + 1,
                   !.token = @ \/ token, !.silence = 0, !.elapsed = @ + 10]
    ELSE IF x.length > 0 /\ x.silence > SILENCE_COMPLETE
    THEN IF x.length <= SHORT_RESPONSE /\ ~x.token /\ x.silence < SILENCE_MAX
         THEN [x EXCEPT !.silence = @ + 10, !.elapsed = @ + 10]
         ELSE ReadOver(x, matches)
    ELSE [x EXCEPT !.silence = IF x.length > 0 THEN @ + 10 ELSE 0, !.elapsed = @ + 10]

AT_Begin ==
    /\ exchange.pc \in {"idle", "returned"}
    /\ \E stream \in BOOLEAN, expects \in BOOLEAN :
          exchange' = SendATCommandEntry(stream, expects)
    /\ UNCHANGED notExchange

AT_Drain ==
    /\ exchange.pc = "drain"
    /\ \E available \in BOOLEAN : exchange' = clearSerialBuffer(exchange, available)
    /\ UNCHANGED notExchange

AT_Read ==
    /\ exchange.pc = "read"
    /\ \E available \in BOOLEAN, token \in BOOLEAN, matches \in BOOLEAN :
          exchange' = readResponse(exchange, AT_TIMEOUT, available, token, matches)
    /\ UNCHANGED notExchange

ExchangeNext == AT_Begin \/ AT_Drain \/ AT_Read

----------------------------------------------------------------------------
(* A confirmed sendCommand in P2P mode, statement by statement, against    *)
(* loop() of the relay unit.  The relay unit sends its response after the  *)
(* two drains of its sendATCommand; the control unit listens from the end  *)
(* of its own drains until receiveP2PMessage returns.  Which of the two    *)
(* comes first is open.                                                    *)

\* the responses the relay unit has handed to sendResponse and not yet sent are at
\* most this many
AirCap == 2
\* the largest maxRetries of the calls
AirRetries == 1

AirCommands == {CMD_STOVE_ON, CMD_STATUS_REQUEST, CMD_PING}

NoPacket == [command |-> <<>>, attempt |-> 0]

\* no sendCommand in progress, nothing on its way
NoAir ==
    [pc |-> "idle", command |-> <<>>, attempt |-> 0, maxRetries |-> 0,
     packet |-> NoPacket, replies |-> <<>>,
     step |-> "none", ret |-> Failure, from |-> NoPacket, wrote |-> FALSE]

notAir == <<relayControl, call, loraReceiver, tx, stoveVars, boot, wire, exchange>>
airReceiverVars == <<stoveRelay, timeSinceLastCommand, timeSinceValidCommand, ledStatus, responses, ev>>

\* the end of an attempt that brought no valid response: the next attempt, or the
\* failure after the last
AirAttemptOver(a, t) ==
    IF a.attempt < a.maxRetries
    THEN [air |-> [a EXCEPT !.pc = "sending", !.attempt = @ + 1, !.step = "retry",
                            !.wrote = FALSE],
          transmitter |-> [t EXCEPT !.totalRetries = @ + 1]]
    ELSE [air |-> [a EXCEPT !.pc = "idle", !.step = "return", !.ret = Failure,
                            !.from = NoPacket, !.wrote = FALSE],
          transmitter |-> [t EXCEPT !.failedTransmissions = @ + 1]]

\* sendP2PMessage(command) of one attempt: sentOk says whether the modem reported
\* TX DONE.  A packet the relay unit has not read is overwritten by the new one
AirTransmit(a, t, sentOk) ==
    IF sentOk
    THEN [air |-> [a EXCEPT !.pc = "listening", !.step = "transmit", !.wrote = TRUE,
                            !.packet = [command |-> a.command, attempt |-> a.attempt]],
          transmitter |-> t]
    ELSE AirAttemptOver(a, t)

\* a response of the relay unit is on the air: receiveP2PMessage decodes it if the
\* control unit listens, and sendCommand returns it if isValidResponse accepts it
AirReceive(a, t, reply) ==
    IF a.pc # "listening" THEN [air |-> [a EXCEPT !.step = "lost", !.wrote = FALSE], transmitter |-> t]
    ELSE IF isValidResponse(reply.text)
    THEN [air |-> [a EXCEPT !.pc = "idle", !.step = "return", !.ret = reply.text,
                            !.from = reply.to, !.wrote = FALSE],
          transmitter |-> [t EXCEPT !.successfulTransmissions = @ + 1]]
    ELSE AirAttemptOver(a, t)

\* sendCommand(command, port, true, maxRetries) is called
AIR_SendCommand ==
    /\ air.pc = "idle" /\ StatisticsBelowCap
    /\ transmitter.isInitialized /\ transmitter.currentMode = "P2P"
    /\ \E command \in AirCommands, maxRetries \in 0..AirRetries :
          air' = [air EXCEPT !.pc = "sending", !.command = command, !.attempt = 0,
                             !.maxRetries = maxRetries, !.step = "call", !.ret = Failure,
                             !.from = NoPacket, !.wrote = FALSE]
    /\ UNCHANGED <<transmitter, airReceiverVars, notAir>>

AIR_Transmit ==
    /\ air.pc = "sending"
    /\ \E sentOk \in BOOLEAN :
       \E r \in {AirTransmit(air, transmitter, sentOk)} :
          air' = r.air /\ transmitter' = r.transmitter
    /\ UNCHANGED <<airReceiverVars, notAir>>

\* loop() of the relay unit reads the packet and hands its responses to sendResponse
AIR_ReceiverLoop ==
    /\ air.packet # NoPacket /\ Len(air.replies) < AirCap
    /\ \E n \in {LoopStep(ReceiverNow, hexToAscii(asciiToHex(air.packet.command)), TRUE, TRUE)} :
          /\ stoveRelay' = n.relay
          /\ ledStatus' = n.led
          /\ responses' = n.sent
          /\ timeSinceLastCommand' = n.sinceCommand
          /\ timeSinceValidCommand' = n.sinceValid
          /\ ev' = n.ev
          /\ air' = [air EXCEPT !.packet = NoPacket, !.step = "loop", !.wrote = FALSE,
                                !.replies = @ \o [i \in 1..Len(n.sent) |->
                                                    [text |-> n.sent[i], to |-> air.packet]]]
    /\ UNCHANGED <<transmitter, notAir>>

\* the relay unit sends the response it has held longest
AIR_Response ==
    /\ air.replies # <<>>
    /\ \E reply \in {[text |-> hexToAscii(asciiToHex(Head(air.replies).text)),
                       to |-> Head(air.replies).to]} :
       \E r \in {AirReceive([air EXCEPT !.replies = Tail(@)], transmitter, reply)} :
          air' = r.air /\ transmitter' = r.transmitter
    /\ UNCHANGED <<airReceiverVars, notAir>>

\* receiveP2PMessage returns without a packet
AIR_WindowEnds ==
    /\ air.pc = "listening"
    /\ \E r \in {AirAttemptOver(air, transmitter)} :
          air' = r.air /\ transmitter' = r.transmitter
    /\ UNCHANGED <<airReceiverVars, notAir>>

AIR_ClearStatistics ==
    /\ air.pc = "idle" /\ ~StatisticsBelowCap
    /\ transmitter' = LoRaTransmitter_clearStatistics(transmitter)
    /\ air' = [air EXCEPT !.step = "clearStatistics", !.wrote = FALSE]
    /\ UNCHANGED <<airReceiverVars, notAir>>

AirNext ==
    \/ AIR_SendCommand \/ AIR_Transmit \/ AIR_ReceiverLoop \/ AIR_Response
    \/ AIR_WindowEnds \/ AIR_ClearStatistics

----------------------------------------------------------------------------
(* Calls of the functions of ProtocolHelper and of the P2P packet functions *)

\* the longest String of bytes encoded
CodecLen == 3

\* the bytes after the first of such a String
SampleBytes == {0, 65, 127, 128, 255}

RECURSIVE ByteStrings(_)
ByteStrings(n) ==
    IF n = 0 THEN {<<>>}
    ELSE ByteStrings(n - 1) \cup
         {<<b>> \o rest : b \in 0..255,
                          rest \in {t \in ByteStrings(n - 1) :
                                       \A i \in 1..Len(t) : t[i] \in SampleBytes}}

\* the texts asked about: the commands, the commands in other spellings, parts of
\* them, and other texts
CommandTexts ==
    InboundStrings \cup {toUpperCase(c) : c \in InboundStrings}
    \cup UNION {{SubSeq(c, 1, n) : n \in 0..Len(c)} : c \in {CMD_STOVE_ON, CMD_PING}}
    \cup {c \o <<" ">> : c \in {CMD_STOVE_ON, CMD_STOVE_OFF, CMD_STATUS_REQUEST, CMD_PING}}
    \cup {<<" ">> \o c : c \in {CMD_STOVE_ON, CMD_PING}}
    \cup {RESP_ACK, RESP_STOVE_ON_ACK, RESP_PONG,
          <<"p", "i", "n", "g">>, <<"P", "i", "n", "g">>,
          <<"s", "t", "a", "t", "u", "s", "_", "r", "e", "q", "u", "e", "s", "t">>}

\* the packets on the air: the commands framed and bare, and other texts
PacketTexts ==
    CommandTexts \cup {createP2PMessage(c) : c \in CommandTexts}

notWire == <<notSenderVars, senderVars, stoveVars, boot, exchange, air>>

\* Each function is applied to one argument, taken from the sets above.

PH_AsciiToHex ==
    /\ wire = NoWire
    /\ \E bytes \in ByteStrings(CodecLen) :
       \E hex \in {asciiToHexBytes(bytes)} :
          wire' = [NoWire EXCEPT !.op = "asciiToHex", !.input = bytes, !.output = hex,
                                 !.back = hexToAsciiBytes(hex)]
    /\ UNCHANGED notWire

PH_IsValidCommand ==
    /\ wire = NoWire
    /\ \E command \in CommandTexts :
          wire' = [NoWire EXCEPT !.op = "isValidCommand", !.input = command,
                                 !.ok = isValidCommand(command)]
    /\ UNCHANGED notWire

\* the helper pair that frames and unframes
PH_CreateP2PMessage ==
    /\ wire = NoWire
    /\ \E command \in CommandTexts :
       \E message \in {createP2PMessage(command)} :
          wire' = [NoWire EXCEPT !.op = "createP2PMessage", !.input = command,
                                 !.output = message, !.back = parseP2PMessage(message)]
    /\ UNCHANGED notWire

\* sendCommand in P2P mode: the payload transmitted for the command
P2P_Send ==
    /\ wire = NoWire
    /\ \E command \in {c \in CommandTexts : isValidCommand(c)} :
          wire' = [NoWire EXCEPT !.op = "sendP2PMessage", !.input = command,
                                 !.output = sendP2PMessage(command)]
    /\ UNCHANGED notWire

\* checkForCommand in P2P mode: the command returned for a packet received
P2P_Receive ==
    /\ wire = NoWire
    /\ \E text \in PacketTexts :
       \E hexData \in {asciiToHex(text)} :
          wire' = [NoWire EXCEPT !.op = "receiveP2PMessage", !.input = hexData,
                                 !.output = receiveP2PMessage(hexData), !.back = text]
    /\ UNCHANGED notWire

RESP_NACK == <<"N", "A", "C", "K">>
RESP_ERROR == <<"E", "R", "R", "O", "R">>

\* the RESP_* literals of protocol_common.hpp
ResponseLiterals ==
    {RESP_ACK, RESP_NACK, RESP_STOVE_ON, RESP_STOVE_OFF, RESP_STOVE_ON_ACK,
     RESP_STOVE_OFF_ACK, RESP_STATUS, RESP_PONG, RESP_ERROR, RESP_TIMEOUT, RESP_UNKNOWN}

\* the responses validated: the literals, status reports, the text "SENT", other
\* spellings and the texts of the commands
ResponseTexts ==
    ResponseLiterals \cup CommandTexts
    \cup {<<"a", "c", "k">>, <<"p", "o", "n", "g">>, <<"s", "e", "n", "t">>}
    \cup {<<"S", "E", "N", "T">>, <<"S", "T", "A", "T", "U", "S", ":">>,
          <<"S", "T", "A", "T", "U", "S", ":", "O", "N">>,
          <<"S", "T", "A", "T", "U", "S">>, <<>>}

PH_IsValidResponse ==
    /\ wire = NoWire
    /\ \E response \in ResponseTexts :
          wire' = [NoWire EXCEPT !.op = "isValidResponse", !.input = response,
                                 !.ok = isValidResponse(response)]
    /\ UNCHANGED notWire

ProtocolNext ==
    \/ PH_AsciiToHex \/ PH_IsValidCommand \/ PH_CreateP2PMessage \/ P2P_Send
    \/ P2P_Receive \/ PH_IsValidResponse

----------------------------------------------------------------------------

Init ==
    /\ stoveRelay = StoveRelayAfterSetup
    /\ timeSinceLastCommand = 0
    /\ timeSinceValidCommand = 0
    /\ ledStatus = "STATUS_WAITING"
    /\ responses = <<>>
    /\ ev = NoEvent("setup")
    /\ relayControl = RelayControlAfterSetup
    /\ call = NoCall("setup")
    /\ transmitter = TransmitterAfterSetup("P2P")
    /\ loraReceiver = LoRaReceiverAfterSetup("P2P")
    /\ tx = NoTx("setup")
    /\ stove = StoveAfterSetup
    /\ localStove = LocalStoveAfterSetup
    /\ sv = NoSv("setup")
    /\ boot = BootIdle
    /\ wire = NoWire
    /\ exchange = NoExchange
    /\ air = NoAir

\* the two units at power-up, before the setup() of an endpoint: the relay is set up
\* and off, the controller has no transmitter
SetupInit ==
    /\ stoveRelay = StoveRelayAfterSetup
    /\ timeSinceLastCommand = 0
    /\ timeSinceValidCommand = 0
    /\ ledStatus = "STATUS_INITIALIZING"
    /\ responses = <<>>
    /\ ev = NoEvent("setup")
    /\ relayControl = RelayControlAfterSetup
    /\ call = NoCall("setup")
    /\ transmitter = LoRaTransmitterConstructed
    /\ loraReceiver = LoRaReceiverConstructed
    /\ tx = NoTx("setup")
    /\ stove = StoveConstructed
    /\ localStove = LocalStoveAfterSetup
    /\ sv = NoSv("setup")
    /\ boot = BootIdle
    /\ wire = NoWire
    /\ exchange = NoExchange
    /\ air = NoAir

ReceiverNext == ReceiverLoop \/ ElapseShort \/ ElapseLong

ReceiverSpec == Init /\ [][ReceiverNext]_vars

RelaySpec == Init /\ [][RelayNext]_vars

ForceSpec == Init /\ [][ForceNext]_vars

TransmitterSpec == Init /\ [][TransmitterNext]_vars

LinkSpec == Init /\ [][LinkNext]_vars

StoveSpec == Init /\ [][StoveNext]_vars

ProtocolSpec == Init /\ [][ProtocolNext]_vars

\* setup() runs to its end, one statement after the other
SetupSpec == SetupInit /\ [][SetupNext]_vars /\ WF_vars(SetupNext)

\* the control unit and the relay unit, each at its own pace
AirSpec == Init /\ [][AirNext]_vars

\* one AT exchange after the other, each statement in its turn
ExchangeSpec == Init /\ [][ExchangeNext]_vars /\ WF_vars(ExchangeNext)

\* setup() alone, up to the point where loop() would take over
BringUpSpec == SetupInit /\ [][BringUpNext]_vars /\ WF_vars(BringUpNext)

\* the receiver under the scheduling the firmware gives it: loop() is called again
\* and again, and time keeps passing
ReceiverLiveSpec ==
    Init /\ [][ReceiverNext]_vars /\ WF_vars(ReceiverLoop) /\ WF_vars(ElapseLong)

----------------------------------------------------------------------------
(* The receiver: safety watchdog and command handling *)

\* the last step was an iteration of loop() that found a decoded string
CommandHandled == ev.op = "loop" /\ ev.command # NoCommand

\* C1: whenever the relay is On and no valid command has been applied for at least
\* the safety window, the next execution of the watchdog check leaves the relay
\* Off, however recently the relay changed state.
C1_WatchdogForcesOff ==
    (ev.op = "loop" /\ ev.midOn /\ ev.silentFor = "window")
        => (~stoveRelay.currentState /\ stoveRelay.pin = "LOW")

\* C2: in every execution in which from some point on no valid command is applied,
\* the relay eventually becomes Off and stays Off.
C2_FailSafe ==
    <>[](~ev.validApplied) => <>[](~stoveRelay.currentState)

\* C3: a decoded string outside the command vocabulary, or a STOVE_ON that the
\* relay refused to apply, does not restart the safety-window timer.
C3_RestartOnlyWhenApplied ==
    (CommandHandled /\ (~isValidCommand(ev.command) \/ (ev.command = CMD_STOVE_ON /\ ~ev.relayRet)))
        => ~ev.restarted

\* C4: a decoded string that is not a command of the vocabulary leaves the relay
\* state and the pin unchanged.
C4_InvalidIgnored ==
    (CommandHandled /\ ~isValidCommand(ev.command))
        => (stoveRelay.currentState = ev.preOn /\ stoveRelay.pin = ev.prePin)

\* C5 as stated: a received command changes the relay only if the minimum dwell
\* interval has elapsed since the previous change of the relay.
C5_DwellEveryCommand ==
    (CommandHandled /\ (ev.midOn # ev.preOn \/ ev.midPin # ev.prePin))
        => ev.preDwellElapsed

\* C5 amended: a received command switches the relay On only if the minimum dwell
\* interval has elapsed since the previous change; a received STOVE_OFF switches
\* a relay that is On to Off at once, whatever the dwell interval.
C5_DwellTurnOn ==
    /\ (CommandHandled /\ ((ev.midOn /\ ~ev.preOn) \/ (ev.midPin = "HIGH" /\ ev.prePin = "LOW")))
          => ev.preDwellElapsed
    /\ (CommandHandled /\ equalsIgnoreCase(ev.command, CMD_STOVE_OFF) /\ ev.preOn)
          => (~ev.midOn /\ ev.midPin = "LOW")

\* a STOVE_ON arrived while the dwell interval was running and the relay was Off
C5_Witness ==
    /\ CommandHandled /\ ev.command = CMD_STOVE_ON
    /\ ~ev.preOn /\ ~ev.preDwellElapsed
    /\ ~ev.midOn

\* on a link that falls silent (nothing is decoded any more) the relay ends Off
SilentLinkFailSafe ==
    <>[](ev.op = "loop" => ev.command = NoCommand) => <>[](~stoveRelay.currentState)

(* The RelayControl and the forced changes of both relay drivers *)

\* the last step was a call of the named operation on the RelayControl
RelayCall(op) == call.obj = "RelayControl" /\ call.op = op

RequestedState(on) == IF on THEN "RELAY_ON" ELSE "RELAY_OFF"

RequestedPin(on) == IF on THEN "HIGH" ELSE "LOW"

\* the vocabulary of processRemoteCommand, in capitals
RemoteVocabulary ==
    { <<"O", "N">>, <<"O", "F", "F">>, <<"S", "T", "A", "T", "U", "S">>,
      <<"F", "O", "R", "C", "E", "_", "O", "N">>, <<"F", "O", "R", "C", "E", "_", "O", "F", "F">>,
      CMD_STOVE_ON, CMD_STOVE_OFF, CMD_STATUS_REQUEST }

\* C6: on an enabled RelayControl with dwell interval D, a non-forced turnOn or
\* turnOff issued less than D after the previous change leaves state, pin and the
\* time of the last change untouched and returns the remaining seconds; issued at
\* least D after the previous change it sets the requested state.
C6_DwellRateLimit ==
    \A op \in {"turnOn", "turnOff"} :
        (RelayCall(op) /\ ~call.flag /\ call.pre.enabled) =>
            IF call.pre.elapsed < call.pre.minChangeInterval
            THEN /\ relayControl = call.pre
                 /\ call.ret.text = (IF op = "turnOn"
                                     THEN "Relay: Cannot turn on, N seconds remaining"
                                     ELSE "Relay: Cannot turn off, N seconds remaining")
                 /\ call.ret.seconds = (call.pre.minChangeInterval - call.pre.elapsed) \div 1000
            ELSE /\ relayControl.currentState = RequestedState(op = "turnOn")
                 /\ relayControl.pin = RequestedPin(op = "turnOn")
                 /\ relayControl.elapsed = 0
                 /\ call.ret.text = (IF op = "turnOn" THEN "Relay: Turned ON" ELSE "Relay: Turned OFF")

\* a non-forced turnOff succeeded exactly D after the relay had been switched on
C6_Witness ==
    /\ RelayCall("turnOff") /\ ~call.flag /\ call.pre.enabled
    /\ call.pre.currentState = "RELAY_ON"
    /\ call.pre.elapsed = call.pre.minChangeInterval
    /\ relayControl.currentState = "RELAY_OFF"

\* C7: after forceState(on), on the RelayControl as on the receiver's StoveRelay,
\* the relay state and the pin are the requested ones and the dwell timer is
\* restarted, however recently the relay changed and whether or not control is
\* enabled.
C7_ForceStateApplies ==
    /\ RelayCall("forceState") =>
          /\ relayControl.currentState = RequestedState(call.flag)
          /\ relayControl.pin = RequestedPin(call.flag)
          /\ relayControl.elapsed = 0
    /\ (call.obj = "StoveRelay" /\ call.op = "forceState") =>
          /\ stoveRelay.currentState = call.flag
          /\ stoveRelay.pin = RequestedPin(call.flag)
          /\ stoveRelay.timeSinceLastChange = 0

\* forceState changed the relay while the dwell interval was still running
C7_Witness ==
    /\ RelayCall("forceState")
    /\ call.pre.elapsed < call.pre.minChangeInterval
    /\ call.pre.currentState # RequestedState(call.flag)
    /\ relayControl.currentState = RequestedState(call.flag)

\* the same on the receiver's relay
C7_StoveRelayForced ==
    /\ call.obj = "StoveRelay" /\ call.op = "forceState"
    /\ call.preStove.timeSinceLastChange < MIN_STATE_CHANGE_INTERVAL
    /\ call.preStove.currentState # call.flag
    /\ stoveRelay.currentState = call.flag

\* the texts that report that control is disabled
DisabledTexts == {"Relay: Control disabled", "Control disabled", "Remote control disabled"}

\* C8 as stated: while the RelayControl is disabled, turnOn, turnOff (forced or
\* not), forceState and processRemoteCommand leave the relay state and the pin
\* unchanged.
C8_DisabledAllNoOps ==
    \A op \in {"turnOn", "turnOff", "forceState", "processRemoteCommand"} :
        (RelayCall(op) /\ ~call.pre.enabled) =>
            /\ relayControl.currentState = call.pre.currentState
            /\ relayControl.pin = call.pre.pin

\* C8 amended: while the RelayControl is disabled, turnOn and turnOff (forced or
\* not) and processRemoteCommand leave the whole object unchanged and return a
\* text saying that control is disabled; forceState does not look at the enabled
\* flag and applies the requested state.
C8_DisabledSwitchingNoOps ==
    /\ \A op \in {"turnOn", "turnOff", "processRemoteCommand"} :
          (RelayCall(op) /\ ~call.pre.enabled) =>
              /\ relayControl = call.pre
              /\ call.ret.text \in DisabledTexts
    /\ (RelayCall("forceState") /\ ~call.pre.enabled) =>
          /\ relayControl.currentState = RequestedState(call.flag)
          /\ relayControl.pin = RequestedPin(call.flag)

\* a forced turnOn on a disabled RelayControl was refused
C8_Witness ==
    /\ RelayCall("turnOn") /\ call.flag /\ ~call.pre.enabled
    /\ call.pre.currentState = "RELAY_OFF"
    /\ relayControl = call.pre
    /\ call.ret.text = "Relay: Control disabled"

\* C9: setEnabled(false) on a relay that is On leaves the relay Off and the
\* control disabled when the call returns, whether or not the dwell interval has
\* elapsed.
C9_DisableForcesOff ==
    (RelayCall("setEnabled") /\ ~call.flag /\ call.pre.currentState = "RELAY_ON") =>
        /\ relayControl.currentState = "RELAY_OFF"
        /\ relayControl.pin = "LOW"
        /\ ~relayControl.enabled

\* control was disabled while the relay was On and the dwell interval was running
C9_Witness ==
    /\ RelayCall("setEnabled") /\ ~call.flag
    /\ call.pre.currentState = "RELAY_ON" /\ call.pre.enabled
    /\ call.pre.elapsed < call.pre.minChangeInterval
    /\ relayControl.currentState = "RELAY_OFF"

\* the text is a status request, in any letter case
IsStatusRequest(text) ==
    toUpperCase(text) \in {<<"S", "T", "A", "T", "U", "S">>, CMD_STATUS_REQUEST}

\* C10 as stated: a status request in any letter case changes neither the relay
\* state nor the dwell timer; a text outside the vocabulary returns "unknown
\* command" and does not change the relay state.
C10_StatusAndUnknown ==
    /\ (RelayCall("processRemoteCommand") /\ IsStatusRequest(call.command)) =>
          relayControl = call.pre
    /\ (RelayCall("processRemoteCommand") /\ toUpperCase(call.command) \notin RemoteVocabulary) =>
          /\ relayControl = call.pre
          /\ call.ret.text = "Unknown command: "
          /\ call.ret.command = call.command

\* C10 amended: a status request in any letter case changes neither the relay
\* state nor the dwell timer; a text outside the vocabulary never changes the
\* relay state, and returns "unknown command" when remote control and control are
\* both enabled, "Remote control disabled" when remote control is off (as it is
\* after construction), and "Control disabled" otherwise.
C10_StatusAndUnknownGated ==
    /\ (RelayCall("processRemoteCommand") /\ IsStatusRequest(call.command)) =>
          relayControl = call.pre
    /\ (RelayCall("processRemoteCommand") /\ toUpperCase(call.command) \notin RemoteVocabulary) =>
          /\ relayControl = call.pre
          /\ call.ret.text = (IF ~call.pre.remoteControlEnabled THEN "Remote control disabled"
                              ELSE IF ~call.pre.enabled THEN "Control disabled"
                              ELSE "Unknown command: ")
          /\ (call.ret.text = "Unknown command: " => call.ret.command = call.command)

\* "banana" was answered with "unknown command" while the relay was On
C10_Witness ==
    /\ RelayCall("processRemoteCommand")
    /\ call.command = <<"b", "a", "n", "a", "n", "a">>
    /\ call.pre.remoteControlEnabled /\ call.pre.enabled
    /\ call.pre.currentState = "RELAY_ON"
    /\ call.ret.text = "Unknown command: "
    /\ relayControl = call.pre

\* a status request in small letters was answered while the relay was On
C10_StatusAnswered ==
    /\ RelayCall("processRemoteCommand")
    /\ call.command = <<"s", "t", "a", "t", "u", "s", "_", "r", "e", "q", "u", "e", "s", "t">>
    /\ call.pre.remoteControlEnabled /\ call.pre.enabled
    /\ call.pre.currentState = "RELAY_ON"
    /\ call.ret.command = <<"R", "e", "l", "a", "y", ":", " ">>

(* The transmitter: retries, statistics, fallback and mode switching *)

\* the last step was a call of the named operation on the transmitter
TxCall(op) == tx.obj = "LoRaTransmitter" /\ tx.op = op

\* C11: a confirmed sendCommand of a vocabulary command with maxRetries retries,
\* none of whose attempts is answered validly, makes exactly maxRetries + 1
\* attempts (3 for maxRetries = 2), returns failure, and adds exactly 1 to
\* failedTransmissions and exactly maxRetries to totalRetries.
C11_BoundedRetries ==
    (TxCall("sendCommand") /\ tx.confirmed /\ isValidCommand(tx.command) /\ tx.silent) =>
        /\ tx.attempts = tx.maxRetries + 1
        /\ tx.ret = Failure
        /\ transmitter.failedTransmissions = tx.pre.failedTransmissions + 1
        /\ transmitter.totalRetries = tx.pre.totalRetries + tx.maxRetries
        /\ transmitter.successfulTransmissions = tx.pre.successfulTransmissions

\* three attempts were made with maxRetries = 2, the modem having sent each packet
\* and an answer that is no valid response having come back
C11_Witness ==
    /\ TxCall("sendCommand") /\ tx.confirmed /\ tx.command = CMD_STOVE_ON /\ tx.silent
    /\ tx.maxRetries = 2 /\ tx.attempts = 3
    /\ transmitter.totalRetries = tx.pre.totalRetries + 2
    /\ transmitter.failedTransmissions = tx.pre.failedTransmissions + 1

C13_InvalidFailsFast ==
    (TxCall("sendCommand") /\ ~isValidCommand(tx.command)) =>
        /\ tx.ret = Failure
        /\ tx.attempts = 0
        /\ transmitter.totalRetries = tx.pre.totalRetries
        /\ transmitter.currentMode = tx.pre.currentMode

\* "stove_on" was rejected in LoRaWAN mode by a call that allowed retries
C13_Witness ==
    /\ TxCall("sendCommand")
    /\ tx.command = <<"s", "t", "o", "v", "e", "_", "o", "n">>
    /\ tx.pre.currentMode = "LoRaWAN" /\ tx.maxRetries > 0
    /\ tx.ret = Failure /\ tx.attempts = 0

\* C14: when every attempt of sendCommandWithFallback in the active mode fails,
\* the other mode can be configured and the first attempt there is answered
\* validly, switchMode is called exactly once and the call returns that response;
\* the call returns failure only if the send in the active mode failed and either
\* the switch failed or the send in the other mode failed too.
C14_FallbackSucceeds ==
    /\ (TxCall("sendCommandWithFallback") /\ isValidCommand(tx.command) /\ tx.silent
            /\ tx.couldSwitch /\ tx.firstDelivers) =>
          /\ tx.switchCalls = 1
          /\ tx.ret # Failure /\ isValidResponse(tx.ret)
          /\ tx.fallbackAttempts = 1
          /\ transmitter.currentMode = OtherMode(tx.pre.currentMode)
    /\ (TxCall("sendCommandWithFallback") /\ tx.ret = Failure) =>
          /\ tx.primaryRet = Failure /\ tx.silent
          /\ tx.switchCalls = 1
          /\ tx.switchOk =>
                tx.fallbackAttempts = (IF isValidCommand(tx.command) THEN tx.maxRetries + 1 ELSE 0)

\* both attempts in P2P mode failed, LoRaWAN was configured and joined, and the
\* first attempt there was answered
C14_Witness ==
    /\ TxCall("sendCommandWithFallback") /\ tx.command = CMD_STOVE_ON
    /\ tx.pre.currentMode = "P2P" /\ tx.maxRetries = 1 /\ tx.silent
    /\ tx.switchCalls = 1 /\ tx.switchOk
    /\ tx.fallbackAttempts = 1
    /\ tx.ret = RESP_STOVE_ON_ACK
    /\ transmitter.currentMode = "LoRaWAN"

\* C15: switchMode(m), on the transmitter as on the receiver, with m already
\* active writes nothing to the modem and succeeds; otherwise the active mode is m
\* afterwards exactly if the configure path of m (with the join for LoRaWAN)
\* succeeded, and after a failure the active mode is the one before the call.
C15_SwitchModeTransactional ==
    \A obj \in {"LoRaTransmitter", "LoRaReceiver"} :
    LET now == IF obj = "LoRaTransmitter" THEN transmitter ELSE loraReceiver
    IN (tx.obj = obj /\ tx.op = "switchMode") =>
          IF tx.mode = tx.pre.currentMode
          THEN ~tx.configured /\ tx.ok /\ now = tx.pre
          ELSE /\ tx.configured
               /\ tx.ok = tx.couldSwitch
               /\ now.currentMode = (IF tx.couldSwitch THEN tx.mode ELSE tx.pre.currentMode)

\* a switch to LoRaWAN failed at the join and P2P stayed the active mode
C15_Witness ==
    /\ TxCall("switchMode") /\ tx.mode = "LoRaWAN" /\ tx.pre.currentMode = "P2P"
    /\ tx.configured /\ ~tx.ok
    /\ transmitter.currentMode = "P2P"

(* The two units end to end *)

\* the last step was a sendCommand over the link; ev is the receiver's handling
\* of its first attempt
LinkCall == tx.op = "linkSendCommand" /\ ev.op = "loop"

\* C16: over the loss-free P2P link, when the sender sends STOVE_ON with
\* confirmation and the receiver decodes it with the relay Off and the dwell
\* interval elapsed, the receiver turns the relay On and
\* responds STOVE_ON_ACK, and sendCommand returns that response on the first
\* attempt with successfulTransmissions one higher, no retry and no failure
\* counted.
C16_EndToEndStoveOn ==
    (LinkCall /\ tx.command = CMD_STOVE_ON
        /\ ~ev.preOn /\ ev.preDwellElapsed) =>
        /\ ev.command = CMD_STOVE_ON
        /\ stoveRelay.currentState /\ stoveRelay.pin = "HIGH"
        /\ responses = <<RESP_STOVE_ON_ACK>>
        /\ tx.ret = RESP_STOVE_ON_ACK
        /\ tx.attempts = 1
        /\ transmitter.successfulTransmissions = tx.pre.successfulTransmissions + 1
        /\ transmitter.totalRetries = tx.pre.totalRetries
        /\ transmitter.failedTransmissions = tx.pre.failedTransmissions

\* what the code does instead: the relay goes On, the receiver answers ACK, which
\* the sender does not accept; the sender retries and counts a failure
C16_AckNotAccepted ==
    (LinkCall /\ tx.command = CMD_STOVE_ON
        /\ ~ev.preOn /\ ev.preDwellElapsed) =>
        /\ ev.command = CMD_STOVE_ON
        /\ stoveRelay.currentState /\ stoveRelay.pin = "HIGH"
        /\ responses = <<RESP_ACK>>
        /\ tx.ret = Failure
        /\ tx.attempts = tx.maxRetries + 1
        /\ transmitter.successfulTransmissions = tx.pre.successfulTransmissions
        /\ transmitter.totalRetries = tx.pre.totalRetries + tx.maxRetries
        /\ transmitter.failedTransmissions = tx.pre.failedTransmissions + 1

\* a STATUS_REQUEST sent over the link was answered with STOVE_ON_ACK at once
C16_StatusAnswered ==
    /\ LinkCall /\ tx.command = CMD_STATUS_REQUEST
    /\ tx.ret = RESP_STOVE_ON_ACK /\ tx.attempts = 1

\* a call of update in which the automatic control ran, on either controller
UpdateDecided == sv.op = "update" /\ sv.shouldBeOn # "none"

\* the state the hysteresis decision of that call started from
DecidedFrom == IF sv.obj = "Stove" THEN sv.pre.currentState ELSE sv.preLocal.currentState

DwellElapsed ==
    IF sv.obj = "Stove" THEN RelayControl_canChangeState(sv.preRelay)
    ELSE LocalStove_canChangeState(sv.preLocal)

\* the state of the controller the last call was made on
StateNow == IF sv.obj = "Stove" THEN stove.currentState ELSE localStove.currentState

\* C18 as stated: a transition decided by update while the dwell interval has not
\* elapsed leaves the state PendingOn (resp. PendingOff), and the update that finds the
\* state pending with the dwell interval elapsed applies it: the state becomes On
\* (resp. Off), whatever the hysteresis decision would be now.
C18_PendingNotDropped ==
    UpdateDecided =>
        /\ (DecidedFrom = "STOVE_OFF" /\ sv.shouldBeOn = "on" /\ ~DwellElapsed) =>
              StateNow = "STOVE_PENDING_ON"
        /\ (DecidedFrom = "STOVE_ON" /\ sv.shouldBeOn = "off" /\ ~DwellElapsed) =>
              StateNow = "STOVE_PENDING_OFF"
        /\ (DecidedFrom = "STOVE_PENDING_ON" /\ DwellElapsed) => StateNow = "STOVE_ON"
        /\ (DecidedFrom = "STOVE_PENDING_OFF" /\ DwellElapsed) => StateNow = "STOVE_OFF"

\* C18, what the two controllers do: the controller of src/stove.cpp never enters a
\* pending state, a transition decided inside the dwell interval leaves its state as
\* it was; the controller of stove.cpp enters the pending state, takes the hysteresis
\* decision again on every later update with the threshold of the side it is pending
\* for, and applies what that decision says once the dwell interval has elapsed.
C18_PendingAsCoded ==
    /\ stove.currentState \in {"STOVE_OFF", "STOVE_ON"}
    /\ (UpdateDecided /\ sv.obj = "Stove" /\ ~DwellElapsed) => StateNow = DecidedFrom
    /\ (UpdateDecided /\ sv.obj = "LocalStove") =>
          /\ (DecidedFrom = "STOVE_OFF" /\ sv.shouldBeOn = "on" /\ ~DwellElapsed) =>
                StateNow = "STOVE_PENDING_ON"
          /\ (DecidedFrom = "STOVE_ON" /\ sv.shouldBeOn = "off" /\ ~DwellElapsed) =>
                StateNow = "STOVE_PENDING_OFF"
          /\ (DecidedFrom \in {"STOVE_PENDING_ON", "STOVE_PENDING_OFF"} /\ DwellElapsed) =>
                StateNow = IF sv.shouldBeOn = "on" THEN "STOVE_ON" ELSE "STOVE_OFF"

\* a pending transition of the local controller is cancelled: pending On, the dwell
\* interval elapsed, and the room has warmed to within HIGH of the desired temperature
C18_PendingCancelled ==
    /\ UpdateDecided /\ sv.obj = "LocalStove" /\ DwellElapsed
    /\ DecidedFrom = "STOVE_PENDING_ON" /\ StateNow = "STOVE_OFF"

\* whether the manual override was active when the last call was made
OverrideWasActive ==
    IF sv.obj = "Stove" THEN sv.pre.manualOverride ELSE sv.preLocal.manualOverride

\* that call left the controller and its relay as they were
ControllerUntouched ==
    IF sv.obj = "Stove" THEN stove = sv.pre /\ relayControl = sv.preRelay
    ELSE localStove = sv.preLocal

\* C19: toggleManualOverride called with the override inactive and a temperature above
\* 82.0 degrees leaves the stove state, the relay and the override flag as they were
\* and returns "OFF (Safety)"; every other toggle changes the override flag and returns
\* "MANUAL ON" (override now active, stove forced On) or "OFF" (override now inactive,
\* stove forced Off), never the safety status.
C19_OverrideSafety ==
    sv.op = "toggleManualOverride" =>
        IF ~OverrideWasActive /\ sv.currentTemp > 820
        THEN /\ ControllerUntouched
             /\ sv.ret.text = "OFF (Safety)"
        ELSE /\ sv.ret.text = (IF OverrideWasActive THEN "OFF" ELSE "MANUAL ON")
             /\ sv.ret.text # "OFF (Safety)"
             /\ StateNow = (IF OverrideWasActive THEN "STOVE_OFF" ELSE "STOVE_ON")
             /\ (IF sv.obj = "Stove" THEN stove.manualOverride
                 ELSE localStove.manualOverride) = ~OverrideWasActive

\* C19 witness: the operator asks for the override at 82.1 degrees with the stove Off,
\* and is refused
C19_Witness ==
    /\ sv.op = "toggleManualOverride" /\ sv.obj = "Stove"
    /\ ~sv.pre.manualOverride /\ sv.currentTemp = 821
    /\ stove.currentState = "STOVE_OFF" /\ relayControl.pin = "LOW"
    /\ ~stove.manualOverride /\ sv.ret.text = "OFF (Safety)"

\* turnOn() or turnOff() was called on the controller of src/stove.cpp
TurnCalled == sv.obj = "Stove" /\ sv.op \in {"turnOn", "turnOff"}

\* the transmitter was handed the command and returned the text the call waits for
MatchingResponse ==
    /\ sv.sent = <<IF sv.on THEN CMD_STOVE_ON ELSE CMD_STOVE_OFF>>
    /\ sv.response = (IF sv.on THEN RESP_STOVE_ON ELSE RESP_STOVE_OFF)

C20_NoTransmitter ==
    TurnCalled /\ ~sv.pre.loraTransmitter /\ sv.ret.text = "LoRa not available"

C20_InsideDwell == TurnCalled /\ sv.ret.text = "Wait Ns" /\ sv.ret.seconds > 0

----------------------------------------------------------------------------
(* Bring-up, mode configuration and the texts on the wire *)

\* setup() of the endpoint has returned false
SetupFailed(unit) == boot.unit = unit /\ boot.ret = "false"

C21_SenderRefuses ==
    /\ SetupFailed("LoRaTransmitter") /\ boot.pc = "ready"
    /\ tx.op = "sendCommandWithFallback" /\ isValidCommand(tx.command)

\* C22: for every String s of bytes 0..255, hexToAscii(asciiToHex(s)) = s, and
\* asciiToHex(s) consists of exactly two upper-case hexadecimal digits per byte.
C22_CodecRoundTrip ==
    wire.op = "asciiToHex" =>
       /\ wire.back = wire.input
       /\ Len(wire.output) = 2 * Len(wire.input)
       /\ \A i \in 1..Len(wire.output) : \E d \in 1..16 : HexDigits[d] = wire.output[i]

\* a String that holds the bytes 255 and 0 was encoded
C22_Witness ==
    /\ wire.op = "asciiToHex" /\ Len(wire.input) >= 2
    /\ wire.input[1] = 255
    /\ \E i \in 2..Len(wire.input) : wire.input[i] = 0

\* C23: isValidCommand returns true for STOVE_ON, STOVE_OFF, STATUS_REQUEST and PING
\* in exactly this spelling, and false for every other text.
C23_FourCommands ==
    wire.op = "isValidCommand" =>
       (wire.ok <=> wire.input \in {CMD_STOVE_ON, CMD_STOVE_OFF, CMD_STATUS_REQUEST,
                                    CMD_PING})

\* a command in another spelling was refused
C23_Witness ==
    /\ wire.op = "isValidCommand" /\ ~wire.ok
    /\ wire.input # CMD_STOVE_ON /\ equalsIgnoreCase(wire.input, CMD_STOVE_ON)

\* each of the four commands was accepted
C23_Accepted == wire.op = "isValidCommand" /\ wire.ok /\ wire.input = CMD_STATUS_REQUEST

\* C30: in P2P mode the payload the sender transmits is the hexadecimal encoding of
\* PREFIX + command, and the receiver unframes every packet it receives, so that a
\* packet whose text does not begin with PREFIX yields no command; unframing a
\* framed command gives the command back.
C30_P2PFraming ==
    /\ wire.op = "sendP2PMessage" =>
          wire.output = asciiToHex(createP2PMessage(wire.input))
    /\ wire.op = "receiveP2PMessage" => wire.output = parseP2PMessage(wire.back)
    /\ wire.op = "createP2PMessage" => wire.back = wire.input

\* what the two units do: the payload is the encoding of the command alone, and the
\* text of a packet is the command whatever it begins with
C30_Unframed ==
    /\ wire.op = "sendP2PMessage" => wire.output = asciiToHex(wire.input)
    /\ wire.op = "receiveP2PMessage" => wire.output = wire.back
    /\ wire.op = "createP2PMessage" => wire.back = wire.input

\* a packet without the prefix is received and yields a command
C30_BareAccepted ==
    /\ wire.op = "receiveP2PMessage" /\ ~startsWith(wire.back, P2P_MSG_PREFIX)
    /\ isValidCommand(wire.output)

\* update() handed an ON or OFF command to the transmitter
UpdateSent(command) ==
    /\ sv.obj = "Stove" /\ sv.op = "update"
    /\ \E i \in 1..Len(sv.sent) : sv.sent[i] = command

C24_IntervalOfForcedChanges ==
    /\ UpdateSent(CMD_STOVE_ON) \/ UpdateSent(CMD_STOVE_OFF) =>
          /\ sv.pre.sinceStateChange >= sv.pre.minChangeInterval
          /\ RelayControl_canChangeState(sv.preRelay)
    /\ sv.obj = "Stove" /\ sv.op \in {"update", "turn"} =>
          stove.currentState = sv.pre.currentState

\* the receiver acknowledges the ON command of update(), and the sender's state stays
\* Off with its interval not restarted
C24_AcknowledgedUnchanged ==
    /\ UpdateSent(CMD_STOVE_ON) /\ sv.response = RESP_STOVE_ON_ACK
    /\ stove.currentState = "STOVE_OFF" /\ stove.sinceStateChange > 0

\* the safety check of the last iteration of loop() fired with the relay On
WatchdogFired == ev.op = "loop" /\ ev.expired /\ ev.midOn

\* C25: when the watchdog fires with the relay On, the relay is switched Off before
\* the SAFETY_TIMEOUT notification is attempted, and it is Off after the step whether
\* the notification was sent or not.
C25_OffBeforeNotification ==
    WatchdogFired =>
       /\ ev.notifying /\ responses # <<>> /\ responses[Len(responses)] = RESP_TIMEOUT
       /\ ~ev.onAtNotify
       /\ ~stoveRelay.currentState /\ stoveRelay.pin = "LOW"

\* the watchdog fired and the notification could not be sent
C25_Witness == WatchdogFired /\ ~ev.notified /\ ~stoveRelay.currentState

\* the watchdog fired and the notification was sent
C25_Notified == WatchdogFired /\ ev.notified /\ ~stoveRelay.currentState

\* setup() is in its search for the baud rate, or has just left it
InSearch == boot.pc \in {"baud", "attempt", "searched"}

\* C26: the baud rates are tried in their order with at most 5 liveness attempts each
\* (the attempts made so far are all those of the earlier rates and the first ones of
\* the current rate), no attempt is started once the deadline has passed, the search
\* stops at the first attempt that succeeds, and it always comes to an end.
C26_SearchBoundedAndOrdered ==
    /\ [](InSearch /\ boot.started > 0 =>
             /\ boot.last.baud \in 1..Len(baudRates)
             /\ boot.last.attempt \in 1..BAUD_ATTEMPTS
             /\ boot.started = (boot.last.baud - 1) * BAUD_ATTEMPTS + boot.last.attempt
             /\ boot.last.at < LORA_INIT_TIMEOUT_MS
             /\ boot.established = boot.last.ok
             /\ (boot.established => boot.pc = "searched"))
    /\ [][InSearch /\ boot.established => boot'.pc \in {"p2p", "returned"}]_vars
    /\ (boot.pc \in {"baud", "attempt"} ~> boot.pc = "searched")
    /\ (boot.pc = "searched" ~> boot.pc \in {"p2p", "returned"})

\* the deadline ended the search before every rate had had its attempts
C26_Witness ==
    /\ boot.pc = "searched" /\ ~boot.established
    /\ boot.elapsed >= LORA_INIT_TIMEOUT_MS
    /\ boot.started < Len(baudRates) * BAUD_ATTEMPTS

\* the search stopped at a success at the second rate, after five failures at the first
C26_StoppedAtSuccess ==
    /\ boot.pc = "searched" /\ boot.established
    /\ boot.last.baud = 2 /\ boot.started = BAUD_ATTEMPTS + boot.last.attempt

\* every attempt at every rate was made and failed
C26_AllFailed ==
    boot.pc = "searched" /\ ~boot.established /\ boot.started = Len(baudRates) * BAUD_ATTEMPTS

\* the endpoint that setup() brings up
BootEndpoint == IF boot.unit = "LoRaTransmitter" THEN transmitter ELSE loraReceiver

\* C27: the endpoint is initialized only if configureP2P succeeded, or it failed and
\* configureLoRaWAN and joinNetwork succeeded; LoRaWAN is tried only after P2P failed;
\* an initialized endpoint is in the mode that succeeded; an endpoint whose setup()
\* returned without a successful configuration is not initialized.
C27_ModeAtStartup ==
    boot.unit # "none" =>
       /\ BootEndpoint.isInitialized =>
             \/ boot.p2p = "ok" /\ boot.lorawan = "untried" /\ BootEndpoint.currentMode = "P2P"
             \/ /\ boot.p2p = "failed" /\ boot.lorawan = "ok" /\ boot.join = "ok"
                /\ BootEndpoint.currentMode = "LoRaWAN"
       /\ (boot.lorawan # "untried" \/ boot.join # "untried" => boot.p2p = "failed")
       /\ (boot.join # "untried" => boot.lorawan = "ok")
       /\ (boot.ret = "true" => BootEndpoint.isInitialized)
       /\ (boot.p2p # "ok" /\ boot.join # "ok" => ~BootEndpoint.isInitialized)

\* setup() has returned true after P2P failed and the network was joined
C27_Witness ==
    /\ boot.pc = "returned" /\ boot.p2p = "failed" /\ boot.join = "ok"
    /\ BootEndpoint.isInitialized /\ BootEndpoint.currentMode = "LoRaWAN"

\* setup() has returned true in P2P mode
C27_P2PActive ==
    /\ boot.pc = "returned" /\ boot.p2p = "ok"
    /\ BootEndpoint.isInitialized /\ BootEndpoint.currentMode = "P2P"

\* setup() has returned false after both configurations failed
C27_StillUnconfigured ==
    /\ boot.pc = "returned" /\ boot.p2p = "failed" /\ boot.lorawan = "failed"
    /\ ~BootEndpoint.isInitialized

\* the join is under way: LoRaWAN is configured and the endpoint not yet initialized
C27_Joining == boot.pc = "poll" /\ boot.lorawan = "ok" /\ ~BootEndpoint.isInitialized

\* the last step of setup() was a read of the poll loop of joinNetwork()
PolledNow == boot.step = "poll" /\ boot.markers # {}

\* the step ended the join attempt: the next attempt, or false after the last
AttemptEnded ==
    \/ boot.pc = "join" /\ boot.window = 0
    \/ boot.pc = "returned" /\ boot.ret = "false" /\ boot.joinAttempt = maxAttempts

\* C28: joinNetwork sends the join command at most 3 times, returns true as soon as
\* the "network joined" marker is read within the poll window, goes to the next
\* attempt on "join failed", on the end of the poll window or when the join command
\* is not accepted, returns false after the last attempt, and always terminates.
C28_JoinBounded ==
    /\ [](/\ boot.joinSent <= maxAttempts /\ boot.joinAttempt <= maxAttempts
          /\ (PolledNow /\ "+JOIN: Network joined" \in boot.markers =>
                 boot.pc = "returned" /\ boot.ret = "true")
          /\ (PolledNow /\ "+JOIN: Join failed" \in boot.markers
                 /\ "+JOIN: Network joined" \notin boot.markers => AttemptEnded)
          /\ (boot.join = "failed" => boot.ret = "false" /\ boot.joinAttempt = maxAttempts))
    /\ (boot.pc \in {"join", "poll"} ~> boot.pc = "returned")

\* what joinNetwork does: as C28, but a read that holds "+JOIN: Start" is taken as
\* the start of the join only, whatever else it holds
C28_StartMasksMarkers ==
    /\ [](/\ boot.joinSent <= maxAttempts /\ boot.joinAttempt <= maxAttempts
          /\ (PolledNow /\ "+JOIN: Start" \in boot.markers =>
                 boot.pc = "poll" /\ boot.joinStarted)
          /\ (PolledNow /\ "+JOIN: Network joined" \in boot.markers
                 /\ "+JOIN: Start" \notin boot.markers =>
                 boot.pc = "returned" /\ boot.ret = "true")
          /\ (PolledNow /\ boot.markers = {"+JOIN: Join failed"} => AttemptEnded)
          /\ (boot.join = "failed" => boot.ret = "false" /\ boot.joinAttempt = maxAttempts))
    /\ (boot.pc \in {"join", "poll"} ~> boot.pc = "returned")

\* the read held the start marker and the joined marker, and the poll goes on
C28_JoinedUnseen ==
    /\ PolledNow /\ {"+JOIN: Start", "+JOIN: Network joined"} \subseteq boot.markers
    /\ boot.pc = "poll"

\* the third attempt ran out of its poll window and joinNetwork returned false
C28_Exhausted ==
    /\ boot.step = "poll" /\ boot.pc = "returned" /\ boot.join = "failed"
    /\ boot.joinSent = maxAttempts

\* the last step of setup() was its call of configureP2P()
ConfiguredP2PNow == boot.step = "configureP2P"

\* the error text of the modem
AT_ERROR == <<"+", "A", "T", ":", " ", "E", "R", "R", "O", "R", "(", "-", "1", ")">>

\* C29: configureP2P succeeds only if the reply to the mode switch contains TEST and
\* the reply to the RF parameters contains RFCFG, on the sender and on the receiver.
C29_TokensRequired ==
    ConfiguredP2PNow /\ boot.p2p = "ok" =>
       indexOfFound(boot.modeReply, TEST) /\ indexOfFound(boot.rfReply, RFCFG)

\* what holds: the transmitter asks for the two tokens; the receiver asks for OK and
\* takes every reply that begins with "+" as the confirmation
C29_ReceiverTakesAnyPlus ==
    ConfiguredP2PNow =>
       IF boot.unit = "LoRaTransmitter"
       THEN boot.p2p = "ok" <=>
               indexOfFound(boot.modeReply, TEST) /\ indexOfFound(boot.rfReply, RFCFG)
       ELSE boot.p2p = "ok" <=>
               \A reply \in {boot.modeReply, boot.rfReply} :
                  indexOfFound(reply, OK) \/ (reply # <<>> /\ reply[1] = "+")

\* the receiver took the error text of the modem for the confirmation of both commands
C29_ErrorAccepted ==
    /\ ConfiguredP2PNow /\ boot.unit = "LoRaReceiver" /\ boot.p2p = "ok"
    /\ boot.modeReply = AT_ERROR /\ boot.rfReply = AT_ERROR
    /\ loraReceiver.isInitialized

\* the transmitter refused the error text
C29_TransmitterRefused ==
    /\ ConfiguredP2PNow /\ boot.unit = "LoRaTransmitter" /\ boot.p2p = "failed"
    /\ boot.modeReply = AT_ERROR

-----------------------------------------------------------------------------
(* Responses, exchanges and the agreement of the two units *)

\* the response vocabulary of the protocol
ResponseVocabulary ==
    {RESP_ACK, RESP_NACK, RESP_STOVE_ON, RESP_STOVE_ON_ACK, RESP_STOVE_OFF,
     RESP_STOVE_OFF_ACK, RESP_PONG, RESP_ERROR, RESP_TIMEOUT, RESP_UNKNOWN}

\* C31: isValidResponse accepts every literal of the response vocabulary.
C31_VocabularyAccepted ==
    wire.op = "isValidResponse" /\ wire.input \in ResponseVocabulary => wire.ok

\* what isValidResponse accepts: the two stove acknowledgments, PONG, STATUS_OK,
\* every text that begins with "STATUS:", and "SENT"
C31_AcceptedResponses ==
    wire.op = "isValidResponse" =>
       (wire.ok <=>
          \/ wire.input \in {RESP_STOVE_ON_ACK, RESP_STOVE_OFF_ACK, RESP_PONG, RESP_STATUS,
                              <<"S", "E", "N", "T">>}
          \/ startsWith(wire.input, <<"S", "T", "A", "T", "U", "S", ":">>))

\* ACK is refused
C31_AckRefused == wire.op = "isValidResponse" /\ wire.input = RESP_ACK /\ ~wire.ok

\* C32: an AT exchange always terminates: each drain of stale input stops at its
\* deadline of one second, the accumulation of the response stops at the latest when
\* the timeout of the exchange has elapsed, also when the modem delivers bytes without
\* pause or never answers, and without a stream the exchange fails at once.
C32_ExchangeTerminates ==
    /\ [](/\ (exchange.pc = "drain" => exchange.elapsed <= DRAIN_DEADLINE)
          /\ (exchange.pc \in {"read", "returned"} => exchange.elapsed <= AT_TIMEOUT)
          /\ (exchange.pc = "returned" /\ exchange.drains = 0 =>
                 exchange.ret = "false" /\ ~exchange.wrote)
          /\ (exchange.pc = "returned" /\ exchange.expects /\ exchange.length = 0 =>
                 exchange.ret = "false"))
    /\ [][/\ (exchange.pc = "drain" /\ exchange.elapsed >= DRAIN_DEADLINE =>
                 exchange'.pc # "drain" \/ exchange'.drains > exchange.drains)
          /\ (exchange.pc = "read" /\ exchange.elapsed >= AT_TIMEOUT =>
                 exchange'.pc = "returned")
          /\ (exchange.pc \in {"idle", "returned"} /\ exchange'.pc = "returned" =>
                 exchange'.drains = 0)]_vars
    /\ (exchange.pc \in {"drain", "read"} ~> exchange.pc = "returned")

\* the second drain has met bytes up to its deadline
C32_Witness ==
    exchange.pc = "drain" /\ exchange.drains = 2 /\ exchange.elapsed = DRAIN_DEADLINE

\* bytes came without pause and the exchange returned at its timeout
C32_BytesWithoutPause ==
    /\ exchange.pc = "returned" /\ exchange.elapsed = AT_TIMEOUT
    /\ exchange.length > SHORT_RESPONSE /\ exchange.silence = 0

\* the modem never answered and the exchange returned false at its timeout
C32_NeverAnswered ==
    /\ exchange.pc = "returned" /\ exchange.elapsed = AT_TIMEOUT
    /\ exchange.length = 0 /\ exchange.ret = "false"

\* a short response without OK kept readResponse waiting beyond the usual silence
C32_WaitedLonger ==
    exchange.pc = "read" /\ exchange.length > 0 /\ exchange.silence > SILENCE_COMPLETE + 10

\* sendCommand has just returned a response
AirReturned == air.step = "return" /\ air.ret # Failure

\* C33: the control unit writes no command while an exchange is outstanding, and the
\* response sendCommand returns for a command was generated by the relay unit in reply
\* to that command, never to an earlier command.
C33_NoMisattribution ==
    /\ (air.wrote => air.pc = "listening" /\ air.packet.command = air.command)
    /\ (AirReturned => air.from.command = air.command)

\* what holds: commands are written one after the other, each while no receive
\* window is open, and a response that is returned is one isValidResponse accepts,
\* sent by the relay unit in reply to some command of the control unit
C33_SequentialOnly ==
    /\ (air.wrote => air.pc = "listening" /\ air.packet.command = air.command)
    /\ (AirReturned => isValidResponse(air.ret) /\ air.from.command \in AirCommands)

\* sendCommand("STOVE_ON") has returned the response to an earlier STATUS_REQUEST
C33_StaleResponse ==
    /\ AirReturned /\ air.command = CMD_STOVE_ON /\ air.from.command = CMD_STATUS_REQUEST
    /\ air.ret = RESP_STOVE_OFF_ACK

\* the last iteration of loop() handled a STOVE_ON, resp. STOVE_OFF command
HandledOn == ev.op = "loop" /\ equalsIgnoreCase(ev.command, CMD_STOVE_ON)
HandledOff == ev.op = "loop" /\ equalsIgnoreCase(ev.command, CMD_STOVE_OFF)

\* the iteration passed ACK to sendResponse
AckSent == \E i \in 1..Len(responses) : responses[i] = RESP_ACK

\* C34: the relay unit acknowledges STOVE_ON (resp. STOVE_OFF) only if the relay is
\* On (resp. Off) after the command was handled; when turnOn refuses the change, no
\* acknowledgment is sent and the status indication does not show the stove as on.
C34_AckOnlyIfSwitched ==
    /\ (HandledOn /\ AckSent => ev.midOn)
    /\ (HandledOff /\ AckSent => ~ev.midOn)
    /\ (HandledOn /\ ~ev.relayRet => ~AckSent /\ ledStatus # "STATUS_STOVE_ON")

\* what loop() does: every STOVE_ON is acknowledged and shown as on, whatever
\* turnOn returned; the relay is on after it if turnOn returned true
C34_AckWhateverTurnOnReturns ==
    /\ (HandledOn => AckSent /\ ledStatus = "STATUS_STOVE_ON" /\ (ev.relayRet => ev.midOn))
    /\ (HandledOff => AckSent /\ ledStatus = "STATUS_STOVE_OFF" /\ ~ev.midOn)

\* turnOn refused within the safety interval, and the command was acknowledged
C34_RefusedAndAcknowledged ==
    /\ HandledOn /\ ~ev.preDwellElapsed /\ ~ev.relayRet /\ AckSent
    /\ ~stoveRelay.currentState /\ ledStatus = "STATUS_STOVE_ON"

\* the pin did not read back HIGH, and the command was acknowledged
C34_ReadBackFailedAndAcknowledged ==
    /\ HandledOn /\ ev.preDwellElapsed /\ ~ev.preOn /\ ~ev.relayRet /\ AckSent
    /\ ~stoveRelay.currentState

\* a call that can send a mode command to the modem of its endpoint
ModeCall == tx.op \in {"switchMode", "setConfiguration", "sendCommandWithFallback"}

\* the mode the endpoint the call was made on is in after it
ModeNow == IF tx.obj = "LoRaReceiver" THEN loraReceiver.currentMode ELSE transmitter.currentMode

\* C35: on an initialized endpoint currentMode is the mode the modem was last put
\* into by an accepted mode command: after switchMode, setConfiguration and
\* sendCommandWithFallback, the configure paths that fail part-way included, the
\* modem is not left in the other mode's configuration.
C35_ModemNeverInOtherMode == ModeCall => tx.modem = ModemMode(ModeNow)

\* what the code keeps: a switchMode that configured the modem and returned true
\* leaves the endpoint and its modem in the mode asked for
C35_SuccessfulSwitchAgrees ==
    tx.op = "switchMode" /\ tx.configured /\ tx.ok =>
        ModeNow = tx.mode /\ tx.modem = ModemMode(tx.mode)

\* switchMode(LoRaWAN) failed after its mode command was accepted
C35_SwitchFailedPartWay ==
    /\ TxCall("switchMode") /\ tx.mode = "LoRaWAN" /\ tx.configured /\ ~tx.ok
    /\ transmitter.currentMode = "P2P" /\ tx.modem = ModemMode("LoRaWAN")

\* setConfiguration returned true on a transmitter in P2P mode
C35_ReconfiguredInP2P ==
    /\ TxCall("setConfiguration") /\ tx.ok /\ tx.pre.currentMode = "P2P"
    /\ transmitter.currentMode = "P2P" /\ tx.modem = ModemMode("LoRaWAN")

\* a call of sendCommandWithFallback on the initialized transmitter
FallbackCall == TxCall("sendCommandWithFallback") /\ tx.pre.isInitialized

\* the sends of the call that failed
FailedSends ==
    (IF tx.primaryRet = Failure THEN 1 ELSE 0) + (IF tx.switchOk /\ tx.ret = Failure THEN 1 ELSE 0)

\* C36: sendCommandWithFallback never switches back: if the primary send failed and
\* switchMode succeeded, the active mode after the call is the fallback mode whether
\* or not the second send succeeded, and failedTransmissions has been incremented
\* once for every failed send, twice when both sends fail.
C36_FallbackModeKept ==
    FallbackCall =>
        /\ (tx.primaryRet = Failure /\ tx.switchOk =>
                transmitter.currentMode = OtherMode(tx.pre.currentMode))
        /\ transmitter.failedTransmissions = tx.pre.failedTransmissions + FailedSends

\* both sends failed: the transmitter is in the fallback mode, two failures counted
C36_Witness ==
    /\ FallbackCall /\ tx.primaryRet = Failure /\ tx.switchOk /\ tx.ret = Failure
    /\ isValidCommand(tx.command)
    /\ transmitter.currentMode = OtherMode(tx.pre.currentMode)
    /\ transmitter.failedTransmissions = tx.pre.failedTransmissions + 2

\* a command was sent over the link and handled by the relay unit
Delivered(command) == tx.op \in {"linkSendCommand", "ping"} /\ ev.op = "loop" /\ tx.command = command

\* the relay unit answered, and the control unit accepts each of its responses
ResponsesAccepted == responses # <<>> /\ \A i \in 1..Len(responses) : isValidResponse(responses[i])

\* C37: the two units agree on the protocol: for each of the four commands
\* delivered to the relay unit, its response is one isValidResponse accepts, and a
\* delivered PING is answered with PONG, so that ping() returns true.
C37_ProtocolAgreement ==
    /\ \A command \in {CMD_STOVE_ON, CMD_STOVE_OFF, CMD_STATUS_REQUEST, CMD_PING} :
          Delivered(command) => ResponsesAccepted
    /\ (Delivered(CMD_PING) /\ tx.op = "ping" => responses = <<RESP_PONG>> /\ tx.ok)

\* what the two units do: only the status request is answered acceptably; the
\* relay unit answers the stove commands with ACK and does not know PING
C37_OnlyStatusAgreed ==
    /\ (Delivered(CMD_STATUS_REQUEST) => ResponsesAccepted /\ tx.ret = responses[1])
    /\ (Delivered(CMD_STOVE_ON) \/ Delivered(CMD_STOVE_OFF) =>
            responses = <<RESP_ACK>> /\ ~ResponsesAccepted /\ tx.ret = Failure)
    /\ (Delivered(CMD_PING) =>
            responses = <<RESP_UNKNOWN>> /\ ~ResponsesAccepted /\ tx.ret = Failure /\ ~tx.ok)

\* a PING that was delivered and answered, and ping() returned false
C37_PingUnknown ==
    /\ Delivered(CMD_PING) /\ tx.op = "ping" /\ ev.command = CMD_PING
    /\ responses = <<RESP_UNKNOWN>> /\ ~tx.ok /\ tx.attempts = PING_RETRIES + 1

\* a STOVE_ON that switched the relay on and was answered with ACK
C37_StoveOnAnsweredAck ==
    /\ Delivered(CMD_STOVE_ON) /\ stoveRelay.currentState
    /\ responses = <<RESP_ACK>> /\ tx.ret = Failure

----------------------------------------------------------------------------
(* The two thermostat controllers: acknowledged commands, the relay pin, and *)
(* the manual override                                                       *)

\* update() asked the relay unit for its status and sent no other command
StatusRequested == sv.obj = "Stove" /\ sv.op = "update" /\ sv.sent = <<CMD_STATUS_REQUEST>>

\* C38: the sender's StoveState On can be reached through the command path: whenever
\* sendCommand returns a validated acknowledgment of STOVE_ON (resp. of STOVE_OFF, or
\* a status response), Stove::turnOn (resp. turnOff, updateRemoteStatus) sets
\* currentState accordingly and reports success.
C38_AcknowledgedSetsState ==
    /\ (TurnCalled /\ sv.on /\ sv.response = RESP_STOVE_ON_ACK =>
            stove.currentState = "STOVE_ON" /\ sv.ret.text = "Stove: Remote turned ON")
    /\ (TurnCalled /\ ~sv.on /\ sv.response = RESP_STOVE_OFF_ACK =>
            stove.currentState = "STOVE_OFF" /\ sv.ret.text = "Stove: Remote turned OFF")
    /\ (StatusRequested /\ sv.status = RESP_STOVE_ON_ACK => stove.currentState = "STOVE_ON")
    /\ (StatusRequested /\ sv.status = RESP_STOVE_OFF_ACK => stove.currentState = "STOVE_OFF")

\* what the controller does: every response sendCommand returns differs from the
\* texts turnOn, turnOff and updateRemoteStatus compare with, so that an
\* acknowledged command is reported as failed and no call that transmits changes
\* currentState
C38_AcknowledgedReportedFailed ==
    /\ (TurnCalled /\ sv.response \in {RESP_STOVE_ON_ACK, RESP_STOVE_OFF_ACK} =>
            sv.ret.text = "Failed: " /\ sv.ret.command = sv.response)
    /\ (sv.obj = "Stove" /\ sv.op \in {"turnOn", "turnOff", "update"} =>
            /\ stove.currentState = sv.pre.currentState
            /\ sv.response \notin {RESP_STOVE_ON, RESP_STOVE_OFF}
            /\ sv.status \notin {RESP_STOVE_ON, RESP_STOVE_OFF})

\* turnOn() was acknowledged with STOVE_ON_ACK and the controller stays Off
C38_OnAcknowledgedStaysOff ==
    /\ TurnCalled /\ sv.on /\ sv.sent = <<CMD_STOVE_ON>> /\ sv.response = RESP_STOVE_ON_ACK
    /\ transmitter.successfulTransmissions = 1
    /\ stove.currentState = "STOVE_OFF" /\ sv.ret.text = "Failed: "

\* the relay unit reported On to a status request and the controller stays Off
C38_StatusOnStaysOff ==
    StatusRequested /\ sv.status = RESP_STOVE_ON_ACK /\ stove.currentState = "STOVE_OFF"

\* the relay pin of the controller of stove.cpp is driven HIGH
PinHigh == localStove.relayPin = "HIGH"

\* C39: in the controller that drives its own relay (stove.cpp) the pin is HIGH
\* exactly when currentState is STOVE_ON or STOVE_PENDING_OFF, and LOW exactly when
\* it is STOVE_OFF or STOVE_PENDING_ON, after any sequence of update, turnOn,
\* turnOff, forceState, setEnabled and toggleManualOverride.
C39_PinFollowsState ==
    /\ PinHigh <=> localStove.currentState \in {"STOVE_ON", "STOVE_PENDING_OFF"}
    /\ ~PinHigh <=> localStove.currentState \in {"STOVE_OFF", "STOVE_PENDING_ON"}

\* what the controller keeps: the pin agrees with the two settled states
C39_PinFollowsSettledState ==
    /\ localStove.relayPin \in {"HIGH", "LOW"}
    /\ (localStove.currentState = "STOVE_ON" => PinHigh)
    /\ (localStove.currentState = "STOVE_OFF" => ~PinHigh)

\* update() turned a pending switch-off into a pending switch-on: the stove burns
\* and the state says it is waiting to be switched on
C39_PendingOnWhileBurning ==
    /\ sv.obj = "LocalStove" /\ sv.op = "update"
    /\ sv.preLocal.currentState = "STOVE_PENDING_OFF"
    /\ localStove.currentState = "STOVE_PENDING_ON" /\ PinHigh

\* the reverse: the relay is off and the state says it is waiting to be switched off
C39_PendingOffWhileOff ==
    /\ sv.obj = "LocalStove" /\ sv.op = "update"
    /\ localStove.currentState = "STOVE_PENDING_OFF" /\ ~PinHigh

\* update() was called on the controller of src/stove.cpp under manual override
UpdateUnderOverride == sv.obj = "Stove" /\ sv.op = "update" /\ sv.pre.manualOverride

\* such an update() transmitted nothing and changed neither controller nor relay
OverrideUntouched ==
    /\ sv.sent = <<>>
    /\ stove.currentState = sv.pre.currentState
    /\ stove.lastCommandedState = sv.pre.lastCommandedState
    /\ relayControl = sv.preRelay
    /\ stove.manualOverride

\* the step that ends the override is a call of one of the two functions
OverrideEndedByCall ==
    stove.manualOverride /\ ~stove'.manualOverride =>
        sv'.op \in {"toggleManualOverride", "clearManualOverride"}

\* C40: while the manual override is active, Stove::update transmits no command and
\* leaves currentState, lastCommandedState and the relay unchanged, for every
\* temperature, those above the 82 degree safety ceiling included; the override
\* ends only through toggleManualOverride or clearManualOverride.
C40_OverrideSuspendsControl ==
    [](UpdateUnderOverride => OverrideUntouched) /\ [][OverrideEndedByCall]_vars

\* update() at 82.1 degrees under manual override: the stove stays forced On
C40_Witness ==
    /\ UpdateUnderOverride /\ sv.currentTemp = SAFETY_MAX_TEMP + 1
    /\ stove.currentState = "STOVE_ON" /\ relayControl.currentState = "RELAY_ON"
    /\ stove.manualOverride

====
